---- MODULE Spec2Model ----
(***************************************************************************)
(* Stoa block intake: the promise chain `pending` that serialises the     *)
(* mutating tasks, the block task with its three branches, gap recovery   *)
(* from Agora (recoverBlock), the boot catch-up, and the events emitted   *)
(* for committed blocks.                                                  *)
(***************************************************************************)
EXTENDS Integers, Sequences, FiniteSets, TLC

\* Stoa._max_count_on_recovery as constructed.
MAX_RECOVERY == 64

\* Highest block height of the chain in Spec.
MaxHeight == 3
\* Number of requests accepted by the write endpoints in one run of Spec.
MaxPosts == 2
\* The value the setter max_count_on_recovery is called with.
SmallRecovery == 2

\* Number of times one task enters recoverBlock.
MaxPasses == 3

\* Highest block height of the chain in SpecLong.
LongHeight == 66
\* The height of the block submitted at local height 3.
ScenarioHeight == 8
\* Number of blocks accepted by /block_externalized in one run of SpecLong.
MaxPostsLong == 1

\* ConsensusConfig.validator_cycle as the ledger is configured.
CycleLength == 3
\* Number of requests accepted by /preimage_received in one run of
\* SpecPreImage.
MaxPreImages == 3

\* The stakes (utxo keys) of the validators, and the key of no enrollment.
Keys == {"u1", "u2"}
NoKey == "u0"
\* The stakes enrolled by the genesis block of SpecPreImage.
GenesisKeys == {"u1"}
\* Heights carried by the pre-images posted to /preimage_received.
PreImageHeights == 0..CycleLength

\* Blocks between the end of the vote and the tally.
TallyGrace == 7
\* Highest vote_end_height of a proposal in SpecProposal.
MaxVoteEnd == 2
\* Highest block height of the chain in SpecProposal.
ProposalHeight == MaxVoteEnd + TallyGrace + 1

\* Highest block height of the chain in SpecValidators.
RegHeight == 4
\* Heights /validators is asked for.
QueryHeights == 0..(RegHeight + CycleLength + 1)

\* Heights carried by the blocks posted to /block_externalized.
PostHeights == 0..MaxHeight
PostHeightsLong == {ScenarioHeight, LongHeight - 1, LongHeight}
\* Chain lengths Agora is observed with (its tip is the length minus one).
AgoraLens == {0, SmallRecovery, MaxHeight + 1}
AgoraLensLong == {0, LongHeight, LongHeight + 1}
\* Number of blocks already in the ledger when Stoa is constructed.
InitStored == {0, 2}
InitStoredLong == {0, 2, 4}

VARIABLES
    phase,          \* "constructed", "started" or "exited" (process.exit)
    agora,          \* number of blocks Agora holds
    stored,         \* heights of the blocks in the ledger storage
    pending,        \* the promise chain: one record per chained task
    max_count_on_recovery,  \* Stoa._max_count_on_recovery
    puts,           \* every call of putBlocks, in call order
    fetches,        \* every call of agora.getBlocksFrom, in call order
    emitted,        \* every socket event, in emission order
    HeightManager,  \* HeightManager.height
    faulted,        \* a store or Agora operation has failed
    res,            \* the last response of a write endpoint
    enrollments,    \* the enrollments the ledger storage holds
    preimages,      \* the pre-image the ledger storage holds of each stake
    proposal,       \* the proposal the chain declares, with its status
    chain,          \* the payload of each block Agora holds, by height + 1
    ballots,        \* the ballots the ledger storage holds
    request,        \* the request of a read endpoint being answered
    user,           \* the document of the administrator in the collection of users
    now,            \* Date.now(), in milliseconds since the process was constructed
    resets          \* the reset tokens issued and used, the requests of POST
                    \* /reset/:token that wait for user.save(), and the last
                    \* response of /reset/:token

vars == <<phase, agora, stored, pending, max_count_on_recovery, puts, fetches, emitted, HeightManager, faulted, res,
         enrollments, preimages, proposal, chain, ballots, request, user, now, resets>>

----------------------------------------------------------------------------
(* Pure helpers *)

\* LedgerStorage.getExpectedBlockHeight: one past the highest stored height.
getExpectedBlockHeight(s) ==
    IF s = {} THEN 0 ELSE (CHOOSE m \in s : \A x \in s : x <= m) + 1

\* AgoraClient.getBlockHeight: the tip of a chain of len blocks.
getBlockHeight(len) == len - 1

Min(a, b) == IF a < b THEN a ELSE b

RECURSIVE Range(_, _)
Range(from, count) ==
    IF count <= 0 THEN <<>> ELSE <<from>> \o Range(from + 1, count - 1)

\* AgoraClient.getBlocksFrom: the blocks from `from`, at most `count` of
\* them and no more than the chain holds.
getBlocksFrom(len, from, count) ==
    Range(from, Min(count, len - from))

\* max_blocks with the received block counted among the blocks to request.
max_blocks_inclusive(height, expected_height, isNull, max) ==
    LET d == (height - expected_height) + 1
    IN  IF d > max THEN max ELSE d

\* recoverBlock, the number of blocks to request.
max_blocks(height, expected_height, isNull, max) ==
    LET d == (height - expected_height) + (IF isNull THEN 1 ELSE 0)
    IN  IF d > max THEN max ELSE d

\* blockBranch that ignores the block at the expected height too.
blockBranch_lessOrEqual(height, expected_height) ==
    IF height <= expected_height THEN "ignored" ELSE "recover"

\* blockBranch that stores every block that is not ahead.
blockBranch_noIgnore(height, expected_height) ==
    IF height > expected_height THEN "recover" ELSE "put"

\* blockBranch that drops a block that is ahead instead of recovering.
blockBranch_noRecover(height, expected_height) ==
    IF height = expected_height THEN "put" ELSE "ignored"

\* task, the three-way comparison of the block height with the expected one.
blockBranch_putAhead(height, expected_height) ==
    IF height >= expected_height THEN "put" ELSE "ignored"

blockBranch(height, expected_height) ==
    IF height = expected_height THEN "put"
    ELSE IF height > expected_height THEN "recover"
    ELSE "ignored"

\* catchup, the guard of the recovery loop.
catchupBranch(height, expected_height) ==
    IF height >= expected_height THEN "recover" ELSE "uptodate"

\* afterLoop that stores the received block wherever the loop stopped.
afterLoop_alwaysSave(height, expected_height, isNull) ==
    IF isNull
    THEN IF height <= expected_height THEN "resolved" ELSE "throw"
    ELSE "save"

\* afterLoop that returns true when the save is postponed.
afterLoop_returnTrue(height, expected_height, isNull) ==
    IF height <= expected_height
    THEN IF isNull THEN "resolved" ELSE "save"
    ELSE IF isNull THEN "throw" ELSE "resolved"

\* recoverBlock after the loop over the fetched blocks: what happens next.
\*   "save"     the received block is stored
\*   "resolved" recoverBlock returned true without a block (catch-up)
\*   "reread"   recoverBlock returned false
\*   "throw"    block.header is read on a null block
afterLoop(height, expected_height, isNull) ==
    IF height <= expected_height
    THEN IF isNull THEN "resolved" ELSE "save"
    ELSE IF isNull THEN "throw" ELSE "reread"

\* recoverBlock, one iteration of the loop: is the fetched block stored?
isExpected(block_height, expected_height) == block_height = expected_height

----------------------------------------------------------------------------
(* The promise chain *)

\* A task chained on `pending`, with the data of its request: the height of
\* the block or of the pre-image, the stakes (utxo keys) the block enrolls,
\* the stake the pre-image is of.
\* A block without a payload-bearing transaction.
NoTx == [kind |-> "none"]

\* The payload-bearing transaction of the block of height h.
payload(h) == IF h + 1 \in DOMAIN chain THEN chain[h + 1] ELSE NoTx

\* The stakes the block with the transaction tx enrolls.
enrollmentsOf(tx) ==
    IF tx.kind = "enroll" THEN {tx.validator}
    ELSE IF tx.kind = "reenroll" THEN tx.validators
    ELSE {}

TaskOf(type, height, enrolls, utxo) ==
    [type |-> type, height |-> height, enrolls |-> enrolls, utxo |-> utxo,
     tx |-> NoTx,
     st |-> "waiting", pc |-> "begin",
     expected_height |-> -1, first_expected |-> -1, blocks |-> <<>>,
     passes |-> 0]

\* The task of a block without enrollment, of a transaction, of the catch-up
\* or of a pre-image of a stake nobody enrolled.
Task(type, height) == TaskOf(type, height, {}, NoKey)

\* canRun of a task that is called as soon as the one before it was called.
canRun_started(i) ==
    /\ pending[i].st = "waiting"
    /\ IF i = 1 THEN TRUE ELSE pending[i - 1].st # "waiting"

\* canRun of a task that is called once the one before it has settled,
\* fulfilled or rejected.
canRun_settled(i) ==
    /\ pending[i].st = "waiting"
    /\ IF i = 1 THEN TRUE ELSE pending[i - 1].st \in {"resolved", "rejected"}

\* `pending.then(f)`: f runs once the promise before it is fulfilled.
canRun(i) ==
    /\ pending[i].st = "waiting"
    /\ IF i = 1 THEN TRUE ELSE pending[i - 1].st = "resolved"

Set(i, fields) ==
    [pending EXCEPT ![i] = [f \in DOMAIN pending[i] |->
        IF f \in DOMAIN fields THEN fields[f] ELSE pending[i][f]]]

Posts == Cardinality({i \in DOMAIN pending : pending[i].type # "catchup"})

\* A response of the write endpoint of tasks of type `endpoint` to a request
\* whose top-level field is "missing" (undefined), "null" or a "value".
Response(endpoint, body, status) ==
    [endpoint |-> endpoint, body |-> body, status |-> status]

\* No request of a read endpoint was received.
NoRequest == [endpoint |-> "none"]

\* `undefined`, as a reset token and as the time a reset token expires at.
NoToken == 0
NoExpiry == -1

\* No reset token was issued and no request of /reset/:token received;
\* `issued` holds, by token, Date.now() when generatePasswordReset ran.
NoResets ==
    [issued |-> <<>>, used |-> {}, saving |-> {}, last |-> [method |-> "none"]]

\* The account of the administrator as registered: no reset was asked for.
Registered ==
    [password |-> "registered", resetPasswordToken |-> NoToken,
     resetPasswordExpires |-> NoExpiry, isVerified |-> FALSE]

\* The process is constructed and was not started.
Unstarted ==
    /\ phase = "constructed"
    /\ pending = <<>>
    /\ max_count_on_recovery = MAX_RECOVERY
    /\ puts = <<>>
    /\ fetches = <<>>
    /\ emitted = <<>>
    /\ HeightManager = getExpectedBlockHeight(stored) - 1
    /\ faulted = FALSE
    /\ res = Response("none", "none", 0)
    /\ user = Registered
    /\ now = 0
    /\ resets = NoResets

Constructed ==
    /\ Unstarted
    /\ request = NoRequest


\* The proposal of a chain that declares none.
NoProposal ==
    [declared_at |-> -1, vote_start_height |-> -1, vote_end_height |-> -1,
     proposal_status |-> "NONE", proposal_result |-> "NONE"]

\* The status machine of a proposal, run by putBlocks with the block of
\* height h: the statuses the proposal p can have once the block is stored.
\* The tally that closes an assessed proposal ends with this block or with
\* a later one.
onBlockCommitted(p, h) ==
    LET s == p.proposal_status
    IN  IF s = "NONE" /\ h = p.declared_at THEN {"PENDING"}
        ELSE IF s = "PENDING" /\ h = p.vote_start_height THEN {"VOTING"}
        ELSE IF s = "VOTING" /\ h = p.vote_end_height + 1 THEN {"COUNTING_VOTES"}
        ELSE IF s = "COUNTING_VOTES" /\ h = p.vote_end_height + TallyGrace
             THEN {"ASSESSING", "CLOSED"}
        ELSE IF s = "ASSESSING" THEN {"ASSESSING", "CLOSED"}
        ELSE {s}

\* The blocks stored carry no enrollment.
NoEnrollment ==
    /\ enrollments = {}
    /\ preimages = <<>>

\* The blocks of the chain declare no proposal and carry no payload.
NoGovernance ==
    /\ proposal = NoProposal
    /\ chain = <<>>
    /\ ballots = {}

Init ==
    /\ agora \in AgoraLens
    /\ \E n \in InitStored : stored = 0..(n - 1)
    /\ NoEnrollment
    /\ NoGovernance
    /\ Constructed

InitLong ==
    /\ agora \in AgoraLensLong
    /\ \E n \in InitStoredLong : stored = 0..(n - 1)
    /\ NoEnrollment
    /\ NoGovernance
    /\ Constructed


----------------------------------------------------------------------------
(* Start-up and the write endpoints *)

\* Start that opens the server and chains no catch-up.
Start_noCatchup ==
    /\ phase = "constructed"
    /\ phase' = "started"
    /\ UNCHANGED <<agora, stored, pending, puts, fetches, emitted, HeightManager, faulted, max_count_on_recovery, res, enrollments, preimages, proposal, chain, ballots, request, user, now, resets>>

\* Stoa.start: the tip of Agora is read, the server is started and the
\* catch-up is chained on `pending`.
Start ==
    /\ phase = "constructed"
    /\ phase' = "started"
    /\ pending' = Append(pending, Task("catchup", getBlockHeight(agora)))
    /\ UNCHANGED <<agora, stored, puts, fetches, emitted, HeightManager, faulted, max_count_on_recovery, res, enrollments, preimages, proposal, chain, ballots, request, user, now, resets>>

\* Stoa.start when Agora cannot be reached: process.exit(1).
StartUnreachable ==
    /\ phase = "constructed"
    /\ phase' = "exited"
    /\ faulted' = TRUE
    /\ UNCHANGED <<agora, stored, pending, puts, fetches, emitted, HeightManager, max_count_on_recovery, res, enrollments, preimages, proposal, chain, ballots, request, user, now, resets>>

\* set max_count_on_recovery, called before the server is started.
set_max_count_on_recovery ==
    /\ phase = "constructed"
    /\ max_count_on_recovery = MAX_RECOVERY
    /\ max_count_on_recovery' = SmallRecovery
    /\ UNCHANGED <<phase, agora, stored, pending, puts, fetches, emitted, HeightManager, faulted, res, enrollments, preimages, proposal, chain, ballots, request, user, now, resets>>

\* The handler chains a task on `pending` and answers 200.
enqueue(type, height, limit) ==
    /\ phase = "started"
    /\ Posts < limit
    /\ pending' = Append(pending, Task(type, height))
    /\ res' = Response(type, "value", 200)
    /\ UNCHANGED <<phase, agora, stored, puts, fetches, emitted, HeightManager, faulted, max_count_on_recovery, enrollments, preimages, proposal, chain, ballots, request, user, now, resets>>

\* POST /block_externalized with a block of height h.
postBlock == \E h \in PostHeights : enqueue("block", h, MaxPosts)
postBlockLong == \E h \in PostHeightsLong : enqueue("block", h, MaxPostsLong)

\* POST /preimage_received.
putPreImage == enqueue("pre_image", 0, MaxPosts)

\* POST /transaction_received.
putTransaction == enqueue("transaction", 0, MaxPosts)

\* A write endpoint whose top-level field is undefined answers 400 and
\* returns.
missing(endpoint) ==
    /\ phase = "started"
    /\ res' = Response(endpoint, "missing", 400)
    /\ UNCHANGED <<phase, agora, stored, pending, puts, fetches, emitted, HeightManager, faulted, max_count_on_recovery, enrollments, preimages, proposal, chain, ballots, request, user, now, resets>>

postBlockMissing == missing("block")
putPreImageMissing == missing("pre_image")
putTransactionMissing == missing("transaction")

\* postBlock and putTransaction with a null field: the field is not
\* undefined, and `req.body.block.toString()` in the log line that precedes
\* the chaining throws; the error handler of Express answers 500.
throws(endpoint) ==
    /\ phase = "started"
    /\ res' = Response(endpoint, "null", 500)
    /\ UNCHANGED <<phase, agora, stored, pending, puts, fetches, emitted, HeightManager, faulted, max_count_on_recovery, enrollments, preimages, proposal, chain, ballots, request, user, now, resets>>

postBlockNull == throws("block")
putTransactionNull == throws("transaction")

\* putPreImage with a null field: its only `toString()` comes after the
\* task is chained and 200 is sent.
putPreImageNull ==
    /\ phase = "started"
    /\ Posts < MaxPosts
    /\ pending' = Append(pending, Task("pre_image", 0))
    /\ res' = Response("pre_image", "null", 200)
    /\ UNCHANGED <<phase, agora, stored, puts, fetches, emitted, HeightManager, faulted, max_count_on_recovery, enrollments, preimages, proposal, chain, ballots, request, user, now, resets>>

\* POST /preimage_received with the pre-image of stake utxo at a height.
putPreImageOf ==
    \E utxo \in Keys, height \in PreImageHeights :
        /\ phase = "started"
        /\ Posts < MaxPreImages
        /\ pending' = Append(pending, TaskOf("pre_image", height, {}, utxo))
        /\ res' = Response("pre_image", "value", 200)
        /\ UNCHANGED <<phase, agora, stored, puts, fetches, emitted, HeightManager, faulted, max_count_on_recovery, enrollments, preimages, proposal, chain, ballots, request, user, now, resets>>

\* POST /block_externalized with the next block of a chain whose blocks
\* enroll stakes.
postBlockEnrolling ==
    \E enrolls \in SUBSET Keys :
        LET height == Posts
        IN  /\ phase = "started"
            /\ height <= RegHeight
            /\ pending' = Append(pending, TaskOf("block", height, enrolls, NoKey))
            /\ res' = Response("block", "value", 200)
            /\ UNCHANGED <<phase, agora, stored, puts, fetches, emitted, HeightManager, faulted, max_count_on_recovery, enrollments, preimages, proposal, chain, ballots, request, user, now, resets>>

\* Agora externalises blocks on its own.
grows(lens) ==
    /\ \E len \in lens : len > agora /\ agora' = len
    /\ UNCHANGED <<phase, stored, pending, max_count_on_recovery, puts, fetches,
                   emitted, HeightManager, faulted, res, enrollments, preimages, proposal, chain, ballots, request, user, now, resets>>

AgoraGrows == grows(AgoraLens)
AgoraGrowsLong == grows(AgoraLensLong)

----------------------------------------------------------------------------
(* The chain runs a task *)

\* The callback given to `pending.then` is called.
Dequeue(i) ==
    /\ canRun(i)
    /\ pending' = Set(i, [st |-> "running"])
    /\ UNCHANGED <<phase, agora, stored, puts, fetches, emitted, HeightManager, faulted, max_count_on_recovery, res, enrollments, preimages, proposal, chain, ballots, request, user, now, resets>>

\* A rejected promise rejects the promise chained on it; its callback is
\* never called.
Propagate(i) ==
    /\ pending[i].st = "waiting"
    /\ IF i = 1 THEN FALSE ELSE pending[i - 1].st = "rejected"
    /\ pending' = Set(i, [st |-> "rejected", pc |-> "never"])
    /\ UNCHANGED <<phase, agora, stored, puts, fetches, emitted, HeightManager, faulted, max_count_on_recovery, res, enrollments, preimages, proposal, chain, ballots, request, user, now, resets>>

Running(i, pc) == pending[i].st = "running" /\ pending[i].pc = pc

\* A store or Agora operation awaited by task i fails: the task rejects.
Fails(i, pcs) ==
    /\ pending[i].st = "running"
    /\ pending[i].pc \in pcs
    /\ pending' = Set(i, [st |-> "rejected"])
    /\ faulted' = TRUE

\* task, type "block": the expected height is read and compared.
TaskExpected(i) ==
    /\ Running(i, "begin")
    /\ pending[i].type = "block"
    /\ LET e == getExpectedBlockHeight(stored)
           b == blockBranch(pending[i].height, e)
       IN  pending' = Set(i, [expected_height |-> e, first_expected |-> e,
                              pc |-> b,
                              st |-> IF b = "ignored" THEN "resolved" ELSE "running"])
    /\ UNCHANGED <<phase, agora, stored, puts, fetches, emitted, HeightManager, faulted, max_count_on_recovery, res, enrollments, preimages, proposal, chain, ballots, request, user, now, resets>>

\* catchup: the expected height is read and compared with the tip.
CatchupExpected(i) ==
    /\ Running(i, "begin")
    /\ pending[i].type = "catchup"
    /\ LET e == getExpectedBlockHeight(stored)
           b == catchupBranch(pending[i].height, e)
       IN  pending' = Set(i, [expected_height |-> e, first_expected |-> e,
                              pc |-> b,
                              st |-> IF b = "uptodate" THEN "resolved" ELSE "running"])
    /\ UNCHANGED <<phase, agora, stored, puts, fetches, emitted, HeightManager, faulted, max_count_on_recovery, res, enrollments, preimages, proposal, chain, ballots, request, user, now, resets>>

\* getExpectedBlockHeight fails, at the start of a task or between passes.
ExpectedFails(i) ==
    /\ pending[i].type \in {"block", "catchup"}
    /\ Fails(i, {"begin", "reread"})
    /\ UNCHANGED <<phase, agora, stored, puts, fetches, emitted, HeightManager, max_count_on_recovery, res, enrollments, preimages, proposal, chain, ballots, request, user, now, resets>>

\* The stake of the enrollment e is a validator at the height h.
enrolled(e, h) == e.enrolled_at < h /\ h <= e.enrolled_at + CycleLength

\* The ballots of the validator that were accepted.
acceptedOf(validator) ==
    {b \in ballots : b.validator = validator /\ b.ballot_answer # "REJECT"}

\* The acceptance rules of a ballot carried by the block of height h, in
\* order: the block is in the voting window of the proposal, the validator
\* is in the validator set at h, and no accepted ballot of the validator has
\* a greater sequence.
acceptable(tx, h) ==
    /\ proposal.proposal_status # "NONE"
    /\ proposal.vote_start_height <= h
    /\ h <= proposal.vote_end_height
    /\ \E e \in enrollments : e.utxo_key = tx.validator /\ enrolled(e, h)
    /\ \A b \in acceptedOf(tx.validator) : b.sequence <= tx.sequence

\* The row of a ballot: a ballot that fails a rule is stored as REJECT, an
\* accepted one is stored undecoded.
BallotRow(tx, h, ballot_answer) ==
    [validator |-> tx.validator, block_height |-> h, sequence |-> tx.sequence,
     answer |-> tx.answer, key_height |-> tx.key_height,
     ballot_answer |-> ballot_answer]

\* The governance hook of putBlocks for the transaction of the block of
\* height h: the ballots the store holds afterwards.
on_tx_committed(tx, h) ==
    IF tx.kind = "ballot"
    THEN ballots \cup {BallotRow(tx, h, IF acceptable(tx, h) THEN "UNDECODED"
                                        ELSE "REJECT")}
    ELSE ballots

tallies_whileCounting(p, h) == p.proposal_status = "COUNTING_VOTES"

\* The block of height h ends the count of the votes of the proposal p.
tallies(p, h) ==
    p.proposal_status = "COUNTING_VOTES" /\ h = p.vote_end_height + TallyGrace

\* The height of the pre-image whose key decrypts the ballots of p.
keyHeight(p) == p.vote_end_height + TallyGrace

\* The registry can derive the pre-image of the stake for the height: the
\* height lies between its enrollment and the pre-image it published last.
preimage_at(utxo, height) ==
    /\ utxo \in DOMAIN preimages
    /\ preimages[utxo].enrolled_at <= height
    /\ height <= preimages[utxo].height

decrypt_anyTime(b, p) == IF b.key_height = keyHeight(p) THEN b.answer ELSE "REJECT"

\* Decryption of a ballot: the answer, or REJECT when the key is not the one
\* the ballot was encrypted with or the registry cannot derive its pre-image.
decrypt(b, p) ==
    IF b.key_height = keyHeight(p) /\ preimage_at(b.validator, keyHeight(p))
    THEN b.answer ELSE "REJECT"

\* Ballot decoding: every accepted ballot is decrypted.
decoded(rows, p) ==
    {IF b.ballot_answer = "UNDECODED"
     THEN [b EXCEPT !.ballot_answer = decrypt(b, p)] ELSE b : b \in rows}

\* The ballot that counts for its validator: the accepted one of the
\* latest block.
counts(b, rows) ==
    /\ b.ballot_answer # "REJECT"
    /\ \A c \in rows :
          (c.validator = b.validator /\ c.ballot_answer # "REJECT")
              => c.block_height <= b.block_height

\* The validators of the committee of p: those of vote_start_height.
committee(p) ==
    {e.utxo_key : e \in {x \in enrollments : enrolled(x, p.vote_start_height)}}

\* Result rule, on the accepted ballots before they are decoded: PASSED when
\* YES has the strict majority of the decrypted YES and NO answers and a
\* third of the committee voted.
result(rows, p) ==
    LET counted == {b \in rows : counts(b, rows)}
        yes     == Cardinality({b \in counted : decrypt(b, p) = "YES"})
        no      == Cardinality({b \in counted : decrypt(b, p) = "NO"})
    IN  IF yes > no /\ 3 * Cardinality(counted) >= Cardinality(committee(p))
        THEN "PASSED" ELSE "REJECTED"

\* The pending fee markers: one for each ProposalFee transaction of a
\* stored block, keyed by the hash of the transaction.
feeMarkers == {payload(g) : g \in {f \in stored : payload(f).kind = "fee"}}

\* The declaration refers to a pending fee marker of the same proposal that
\* paid the proposal fee.
funded(tx) ==
    \E m \in feeMarkers :
        /\ m.hash = tx.fee_tx_hash
        /\ m.proposal_id = tx.proposal_id
        /\ m.paid >= tx.proposal_fee

materialised_unfunded(p, tx, h) ==
    IF tx.kind = "proposal" /\ p.proposal_status = "NONE" /\ p.declared_at < 0
    THEN [declared_at |-> h, vote_start_height |-> tx.vote_start_height,
          vote_end_height |-> tx.vote_end_height,
          proposal_status |-> "NONE", proposal_result |-> "PENDING"]
    ELSE p

\* The proposal once the transaction of the block of height h is read: a
\* funded declaration creates it, when the ledger has none.
materialised(p, tx, h) ==
    IF tx.kind = "proposal" /\ p.proposal_status = "NONE" /\ p.declared_at < 0
       /\ funded(tx)
    THEN [declared_at |-> h, vote_start_height |-> tx.vote_start_height,
          vote_end_height |-> tx.vote_end_height,
          proposal_status |-> "NONE", proposal_result |-> "PENDING"]
    ELSE p

\* LedgerStorage.putBlocks: the block is inserted with its enrollments; the
\* pre-image of an enrolled stake starts at the commitment, at the height of
\* the enrollment; the status of the proposal is brought to this height.
putBlocks(h, enrolls, tx) ==
    /\ stored' = stored \cup {h}
    /\ enrollments' = enrollments \cup
            {[utxo_key |-> u, enrolled_at |-> h] : u \in enrolls}
    /\ preimages' = [u \in DOMAIN preimages \cup enrolls |->
            IF u \in enrolls THEN [enrolled_at |-> h, height |-> h]
            ELSE preimages[u]]
    /\ LET rows == on_tx_committed(tx, h)
           p    == materialised(proposal, tx, h)
       IN  IF tallies(p, h)
           THEN /\ ballots' = decoded(rows, p)
                /\ \E status \in onBlockCommitted(p, h) :
                      proposal' = [p EXCEPT
                          !.proposal_status = status,
                          !.proposal_result = result(rows, p)]
           ELSE /\ ballots' = rows
                /\ \E status \in onBlockCommitted(p, h) :
                      proposal' = [p EXCEPT !.proposal_status = status]

PutCall(i, h, path, ok) ==
    [height |-> h, expected |-> getExpectedBlockHeight(stored), by |-> i,
     path |-> path, ok |-> ok]

\* The events of emitBlock followed by the one of emitBoaStats.
blockEvents(h) == <<<<"new_block", h>>, <<"new_transaction", h>>>>
statsEvents(h) == <<<<"latest_stats", h>>>>

\* TaskPut that stores the block without the enrollments it carries.
TaskPut_noEnrollments(i) ==
    /\ Running(i, "put")
    /\ putBlocks(pending[i].height, {}, pending[i].tx)
    /\ puts' = Append(puts, PutCall(i, pending[i].height, "direct", TRUE))
    /\ HeightManager' = pending[i].height
    /\ pending' = Set(i, [pc |-> "emit"])
    /\ UNCHANGED <<phase, agora, fetches, emitted, faulted, max_count_on_recovery, res, chain, request, user, now, resets>>

\* task, the normal case: putBlocks of the received block.
TaskPut_noTransactions(i) ==
    /\ Running(i, "put")
    /\ putBlocks(pending[i].height, pending[i].enrolls, NoTx)
    /\ puts' = Append(puts, PutCall(i, pending[i].height, "direct", TRUE))
    /\ HeightManager' = pending[i].height
    /\ pending' = Set(i, [pc |-> "emit"])
    /\ UNCHANGED <<phase, agora, fetches, emitted, faulted, max_count_on_recovery, res, chain, request, user, now, resets>>

TaskPut(i) ==
    /\ Running(i, "put")
    /\ putBlocks(pending[i].height, pending[i].enrolls, pending[i].tx)
    /\ puts' = Append(puts, PutCall(i, pending[i].height, "direct", TRUE))
    /\ HeightManager' = pending[i].height
    /\ pending' = Set(i, [pc |-> "emit"])
    /\ UNCHANGED <<phase, agora, fetches, emitted, faulted, max_count_on_recovery, res, chain, request, user, now, resets>>

\* TaskPutFails with the error swallowed: the task goes on to the events.
TaskPutFails_swallowed(i) ==
    /\ Running(i, "put")
    /\ pending' = Set(i, [pc |-> "emit"])
    /\ faulted' = TRUE
    /\ puts' = Append(puts, PutCall(i, pending[i].height, "direct", FALSE))
    /\ UNCHANGED <<phase, agora, stored, fetches, emitted, HeightManager, max_count_on_recovery, res, enrollments, preimages, proposal, chain, ballots, request, user, now, resets>>

TaskPutFails(i) ==
    /\ Fails(i, {"put"})
    /\ puts' = Append(puts, PutCall(i, pending[i].height, "direct", FALSE))
    /\ UNCHANGED <<phase, agora, stored, fetches, emitted, HeightManager, max_count_on_recovery, res, enrollments, preimages, proposal, chain, ballots, request, user, now, resets>>

\* task, the normal case: emitBlock, then emitBoaStats resolves.
TaskEmit(i) ==
    /\ Running(i, "emit")
    /\ emitted' = emitted \o blockEvents(pending[i].height) \o statsEvents(pending[i].height)
    /\ pending' = Set(i, [st |-> "resolved", pc |-> "done"])
    /\ UNCHANGED <<phase, agora, stored, puts, fetches, HeightManager, faulted, max_count_on_recovery, res, enrollments, preimages, proposal, chain, ballots, request, user, now, resets>>

\* emitBoaStats when getBOAStats fails or returns no row: its promise is
\* never settled, so the task awaits it for ever.
StatsHangs(i) ==
    /\ pending[i].st = "running"
    /\ pending[i].pc \in {"emit", "remit"}
    /\ LET h == IF pending[i].pc = "emit" THEN pending[i].height
                ELSE Head(pending[i].blocks)
       IN  emitted' = emitted \o blockEvents(h)
    /\ pending' = Set(i, [pc |-> "hung"])
    /\ faulted' = TRUE
    /\ UNCHANGED <<phase, agora, stored, puts, fetches, HeightManager, max_count_on_recovery, res, enrollments, preimages, proposal, chain, ballots, request, user, now, resets>>


----------------------------------------------------------------------------
(* recoverBlock *)

isNull(i) == pending[i].type = "catchup"

\* Where recoverBlock goes with the fetched blocks bs left and the local
\* expected height e: on to the next fetched block, or out of the loop.
after(i, bs, e) ==
    IF bs # <<>>
    THEN IF isExpected(Head(bs), e) THEN "loop" ELSE "reread"
    ELSE afterLoop(pending[i].height, e, isNull(i))

stOf(pc) ==
    IF pc = "resolved" THEN "resolved"
    ELSE IF pc = "throw" THEN "rejected"
    ELSE "running"

\* `Save of block ... postponed`: HeightManager.height takes the height of
\* the received block.
postponed(bs, pc) == bs = <<>> /\ pc = "reread"

FetchCall(i, from, count) ==
    [from |-> from, count |-> count, by |-> i,
     expected |-> getExpectedBlockHeight(stored)]

\* recoverBlock up to the answer of agora.getBlocksFrom.
RecoverFetch(i) ==
    /\ Running(i, "recover")
    /\ pending[i].passes < MaxPasses
    /\ LET e  == pending[i].expected_height
           mb == max_blocks(pending[i].height, e, isNull(i), max_count_on_recovery)
           bs == IF mb > 0 THEN getBlocksFrom(agora, e, mb) ELSE <<>>
           n  == after(i, bs, e)
       IN  /\ pending' = Set(i, [blocks |-> bs, pc |-> n, st |-> stOf(n),
                                 passes |-> pending[i].passes + 1])
           /\ fetches' = IF mb > 0
                         THEN Append(fetches, FetchCall(i, e, mb))
                         ELSE fetches
           /\ HeightManager' = IF postponed(bs, n) THEN pending[i].height
                               ELSE HeightManager
    /\ UNCHANGED <<phase, agora, stored, puts, emitted, faulted, max_count_on_recovery, res, enrollments, preimages, proposal, chain, ballots, request, user, now, resets>>

\* agora.getBlocksFrom fails.
FetchFails(i) ==
    /\ Fails(i, {"recover"})
    /\ pending[i].passes < MaxPasses
    /\ max_blocks(pending[i].height, pending[i].expected_height, isNull(i),
                  max_count_on_recovery) > 0
    /\ fetches' = Append(fetches, FetchCall(i, pending[i].expected_height,
            max_blocks(pending[i].height, pending[i].expected_height, isNull(i),
                       max_count_on_recovery)))
    /\ UNCHANGED <<phase, agora, stored, puts, emitted, HeightManager, max_count_on_recovery, res, enrollments, preimages, proposal, chain, ballots, request, user, now, resets>>

\* The loop over the fetched blocks: putBlocks of the next one.
RecoverPut(i) ==
    /\ Running(i, "loop")
    /\ putBlocks(Head(pending[i].blocks), {}, payload(Head(pending[i].blocks)))
    /\ puts' = Append(puts, PutCall(i, Head(pending[i].blocks), "fetched", TRUE))
    /\ pending' = Set(i, [pc |-> "remit"])
    /\ UNCHANGED <<phase, agora, fetches, emitted, HeightManager, faulted, max_count_on_recovery, res, chain, request, user, now, resets>>

RecoverPutFails(i) ==
    /\ Fails(i, {"loop"})
    /\ puts' = Append(puts, PutCall(i, Head(pending[i].blocks), "fetched", FALSE))
    /\ UNCHANGED <<phase, agora, stored, fetches, emitted, HeightManager, max_count_on_recovery, res, enrollments, preimages, proposal, chain, ballots, request, user, now, resets>>

\* The loop over the fetched blocks: the events of the stored block, the
\* local expected height advances, and on to what follows.
RecoverEmit(i) ==
    /\ Running(i, "remit")
    /\ LET b  == Head(pending[i].blocks)
           bs == Tail(pending[i].blocks)
           e  == pending[i].expected_height + 1
           n  == after(i, bs, e)
       IN  /\ emitted' = emitted \o blockEvents(b) \o statsEvents(b)
           /\ pending' = Set(i, [blocks |-> bs, expected_height |-> e,
                                 pc |-> n, st |-> stOf(n)])
           /\ HeightManager' = IF postponed(bs, n) THEN pending[i].height ELSE b
    /\ UNCHANGED <<phase, agora, stored, puts, fetches, faulted, max_count_on_recovery, res, enrollments, preimages, proposal, chain, ballots, request, user, now, resets>>

\* `Save a block just received`: putBlocks of the block that started the
\* recovery, after which recoverBlock returns true.
RecoverSave(i) ==
    /\ Running(i, "save")
    /\ putBlocks(pending[i].height, pending[i].enrolls, pending[i].tx)
    /\ puts' = Append(puts, PutCall(i, pending[i].height, "received", TRUE))
    /\ HeightManager' = pending[i].height
    /\ pending' = Set(i, [st |-> "resolved", pc |-> "done"])
    /\ UNCHANGED <<phase, agora, fetches, emitted, faulted, max_count_on_recovery, res, chain, request, user, now, resets>>

RecoverSaveFails(i) ==
    /\ Fails(i, {"save"})
    /\ puts' = Append(puts, PutCall(i, pending[i].height, "received", FALSE))
    /\ UNCHANGED <<phase, agora, stored, fetches, emitted, HeightManager, max_count_on_recovery, res, enrollments, preimages, proposal, chain, ballots, request, user, now, resets>>

\* recoverBlock returned false: the expected height is read again.
Reread(i) ==
    /\ Running(i, "reread")
    /\ pending' = Set(i, [expected_height |-> getExpectedBlockHeight(stored),
                          pc |-> "recover"])
    /\ UNCHANGED <<phase, agora, stored, puts, fetches, emitted, HeightManager, faulted, max_count_on_recovery, res, enrollments, preimages, proposal, chain, ballots, request, user, now, resets>>

----------------------------------------------------------------------------
(* The other two kinds of task *)

\* LedgerStorage.updatePreImage: the pre-image of a stake is replaced by one
\* that is higher and within the cycle of the enrollment; otherwise, and
\* for a stake that is not enrolled, no row changes.
accepted(utxo, height) ==
    /\ utxo \in DOMAIN preimages
    /\ height > preimages[utxo].height
    /\ height < preimages[utxo].enrolled_at + CycleLength

updatePreImage(utxo, height) ==
    IF accepted(utxo, height)
    THEN [preimages EXCEPT ![utxo].height = height]
    ELSE preimages

\* TaskPreImage that writes the pre-image received without the update rule.
TaskPreImage_overwrite(i) ==
    /\ Running(i, "begin")
    /\ pending[i].type = "pre_image"
    /\ preimages' = [u \in DOMAIN preimages |->
            IF u = pending[i].utxo
            THEN [preimages[u] EXCEPT !.height = pending[i].height]
            ELSE preimages[u]]
    /\ pending' = Set(i, [st |-> "resolved", pc |-> "done"])
    /\ UNCHANGED <<phase, agora, stored, puts, fetches, emitted, HeightManager, faulted, max_count_on_recovery, res, enrollments, proposal, chain, ballots, request, user, now, resets>>

\* TaskPreImage that rejects when updatePreImage changed no row.
TaskPreImage_rejectsUnchanged(i) ==
    /\ Running(i, "begin")
    /\ pending[i].type = "pre_image"
    /\ preimages' = updatePreImage(pending[i].utxo, pending[i].height)
    /\ pending' = Set(i, IF accepted(pending[i].utxo, pending[i].height)
                         THEN [st |-> "resolved", pc |-> "done"]
                         ELSE [st |-> "rejected", pc |-> "begin"])
    /\ UNCHANGED <<phase, agora, stored, puts, fetches, emitted, HeightManager, faulted, max_count_on_recovery, res, enrollments, proposal, chain, ballots, request, user, now, resets>>

\* task, type "pre_image": updatePreImage, then resolve whether a row
\* changed or not.
TaskPreImage(i) ==
    /\ Running(i, "begin")
    /\ pending[i].type = "pre_image"
    /\ preimages' = updatePreImage(pending[i].utxo, pending[i].height)
    /\ pending' = Set(i, [st |-> "resolved", pc |-> "done"])
    /\ UNCHANGED <<phase, agora, stored, puts, fetches, emitted, HeightManager, faulted, max_count_on_recovery, res, enrollments, proposal, chain, ballots, request, user, now, resets>>

\* task, type "transaction": putTransactionPool.
TaskTransaction(i) ==
    /\ Running(i, "begin")
    /\ pending[i].type = "transaction"
    /\ pending' = Set(i, [pc |-> "tip"])
    /\ UNCHANGED <<phase, agora, stored, puts, fetches, emitted, HeightManager, faulted, max_count_on_recovery, res, enrollments, preimages, proposal, chain, ballots, request, user, now, resets>>

\* task, type "transaction": agora.getBlockHeight.
TaskTransactionTip(i) ==
    /\ Running(i, "tip")
    /\ pending' = Set(i, [st |-> "resolved", pc |-> "done"])
    /\ UNCHANGED <<phase, agora, stored, puts, fetches, emitted, HeightManager, faulted, max_count_on_recovery, res, enrollments, preimages, proposal, chain, ballots, request, user, now, resets>>

\* updatePreImage, putTransactionPool or agora.getBlockHeight fails.
OtherFails(i) ==
    /\ pending[i].type \in {"pre_image", "transaction"}
    /\ Fails(i, {"begin", "tip"})
    /\ UNCHANGED <<phase, agora, stored, puts, fetches, emitted, HeightManager, max_count_on_recovery, res, enrollments, preimages, proposal, chain, ballots, request, user, now, resets>>

----------------------------------------------------------------------------
(* GET /validators *)

\* The `height` of a request without the query parameter.
NoHeight == -1

\* The highest block the ledger storage holds.
latest == getExpectedBlockHeight(stored) - 1

\* The enrollment window: active after the block of the enrollment, for
\* CycleLength blocks.
active(enrolled_at, height) ==
    enrolled_at < height /\ height <= enrolled_at + CycleLength

\* LedgerStorage.getValidatorsAPI: one row per stake with an enrollment
\* active at the height asked for (the latest block when none is given),
\* the row of the last such enrollment.
getValidatorsAPI(height) ==
    LET cur_height == IF height = NoHeight THEN latest ELSE height
        inWindow == {e \in enrollments : active(e.enrolled_at, cur_height)}
    IN  {e \in inWindow :
            \A o \in inWindow :
                o.utxo_key = e.utxo_key => o.enrolled_at <= e.enrolled_at}

ValidatorData(row) == [address |-> row.utxo_key, enrolled_at |-> row.enrolled_at]

\* getValidators that leaves out the validators enrolled by the previous
\* block.
getValidators_settled(height) ==
    LET rows == getValidatorsAPI(height)
    IN  IF rows = {}
        THEN [status |-> IF height # NoHeight THEN 400 ELSE 503, body |-> {}]
        ELSE [status |-> 200,
              body |-> {ValidatorData(row) :
                          row \in {r \in rows : r.enrolled_at + 1 # height}}]

\* Stoa.getValidators for a height that is a non-negative integer: 400 or
\* 503 when the store returns no row, else one ValidatorData per row.
getValidators(height) ==
    LET rows == getValidatorsAPI(height)
    IN  IF rows = {}
        THEN [status |-> IF height # NoHeight THEN 400 ELSE 503, body |-> {}]
        ELSE [status |-> 200, body |-> {ValidatorData(row) : row \in rows}]

----------------------------------------------------------------------------

Next ==
    \/ set_max_count_on_recovery
    \/ Start
    \/ StartUnreachable
    \/ postBlock
    \/ putPreImage
    \/ putTransaction
    \/ AgoraGrows
    \/ \E i \in DOMAIN pending : Dequeue(i)
    \/ \E i \in DOMAIN pending : Propagate(i)
    \/ \E i \in DOMAIN pending : TaskExpected(i)
    \/ \E i \in DOMAIN pending : CatchupExpected(i)
    \/ \E i \in DOMAIN pending : ExpectedFails(i)
    \/ \E i \in DOMAIN pending : TaskPut(i)
    \/ \E i \in DOMAIN pending : TaskPutFails(i)
    \/ \E i \in DOMAIN pending : TaskEmit(i)
    \/ \E i \in DOMAIN pending : StatsHangs(i)
    \/ \E i \in DOMAIN pending : RecoverFetch(i)
    \/ \E i \in DOMAIN pending : FetchFails(i)
    \/ \E i \in DOMAIN pending : RecoverPut(i)
    \/ \E i \in DOMAIN pending : RecoverPutFails(i)
    \/ \E i \in DOMAIN pending : RecoverEmit(i)
    \/ \E i \in DOMAIN pending : RecoverSave(i)
    \/ \E i \in DOMAIN pending : RecoverSaveFails(i)
    \/ \E i \in DOMAIN pending : Reread(i)
    \/ \E i \in DOMAIN pending : TaskPreImage(i)
    \/ \E i \in DOMAIN pending : TaskTransaction(i)
    \/ \E i \in DOMAIN pending : TaskTransactionTip(i)
    \/ \E i \in DOMAIN pending : OtherFails(i)

Spec == Init /\ [][Next]_vars

\* The chain of more than MAX_RECOVERY blocks, with the recovery count left
\* as constructed and no failing store or Agora operation.
NextLong ==
    \/ Start
    \/ postBlockLong
    \/ AgoraGrowsLong
    \/ \E i \in DOMAIN pending : Dequeue(i)
    \/ \E i \in DOMAIN pending : Propagate(i)
    \/ \E i \in DOMAIN pending : TaskExpected(i)
    \/ \E i \in DOMAIN pending : CatchupExpected(i)
    \/ \E i \in DOMAIN pending : TaskPut(i)
    \/ \E i \in DOMAIN pending : TaskEmit(i)
    \/ \E i \in DOMAIN pending : RecoverFetch(i)
    \/ \E i \in DOMAIN pending : RecoverPut(i)
    \/ \E i \in DOMAIN pending : RecoverEmit(i)
    \/ \E i \in DOMAIN pending : RecoverSave(i)
    \/ \E i \in DOMAIN pending : Reread(i)

SpecLong == InitLong /\ [][NextLong]_vars

\* The write endpoints with every shape of request body, on an empty ledger
\* and an Agora that externalises no block after the start; no block is then
\* stored as `just received` by recoverBlock.
InitIntake ==
    /\ agora \in AgoraLens
    /\ stored = {}
    /\ NoEnrollment
    /\ NoGovernance
    /\ Constructed

NextIntake ==
    \/ Start
    \/ postBlock
    \/ postBlockMissing
    \/ postBlockNull
    \/ putPreImage
    \/ putPreImageMissing
    \/ putPreImageNull
    \/ putTransaction
    \/ putTransactionMissing
    \/ putTransactionNull
    \/ \E i \in DOMAIN pending : Dequeue(i)
    \/ \E i \in DOMAIN pending : Propagate(i)
    \/ \E i \in DOMAIN pending : TaskExpected(i)
    \/ \E i \in DOMAIN pending : CatchupExpected(i)
    \/ \E i \in DOMAIN pending : ExpectedFails(i)
    \/ \E i \in DOMAIN pending : TaskPut(i)
    \/ \E i \in DOMAIN pending : TaskPutFails(i)
    \/ \E i \in DOMAIN pending : TaskEmit(i)
    \/ \E i \in DOMAIN pending : StatsHangs(i)
    \/ \E i \in DOMAIN pending : RecoverFetch(i)
    \/ \E i \in DOMAIN pending : FetchFails(i)
    \/ \E i \in DOMAIN pending : RecoverPut(i)
    \/ \E i \in DOMAIN pending : RecoverPutFails(i)
    \/ \E i \in DOMAIN pending : RecoverEmit(i)
    \/ \E i \in DOMAIN pending : Reread(i)
    \/ \E i \in DOMAIN pending : TaskPreImage(i)
    \/ \E i \in DOMAIN pending : TaskTransaction(i)
    \/ \E i \in DOMAIN pending : TaskTransactionTip(i)
    \/ \E i \in DOMAIN pending : OtherFails(i)

SpecIntake == InitIntake /\ [][NextIntake]_vars

----------------------------------------------------------------------------
\* Blocks that pass the check of the handler and have no header or no
\* header.height.

\* The height of a block object that has none.
NoJsonHeight == -2

\* POST /block_externalized with a block object without header.height: the
\* field `block` is defined, the task is chained and 200 is sent.
postBlockMalformed == enqueue("block", NoJsonHeight, MaxPosts)

\* task, type "block": getJsonBlockHeight throws inside the try, and the
\* catch rejects the task.
TaskMalformed(i) ==
    /\ Running(i, "begin")
    /\ pending[i].type = "block"
    /\ pending[i].height = NoJsonHeight
    /\ pending' = Set(i, [st |-> "rejected", pc |-> "throw"])
    /\ UNCHANGED <<phase, agora, stored, puts, fetches, emitted, HeightManager, faulted, max_count_on_recovery, res, enrollments, preimages, proposal, chain, ballots, request, user, now, resets>>

\* task, type "block", of a block object that has a height.
TaskWellFormed(i) ==
    /\ pending[i].height # NoJsonHeight
    /\ TaskExpected(i)

NextMalformed ==
    \/ Start
    \/ postBlock
    \/ AgoraGrows
    \/ postBlockMalformed
    \/ \E i \in DOMAIN pending : Dequeue(i)
    \/ \E i \in DOMAIN pending : Propagate(i)
    \/ \E i \in DOMAIN pending : TaskWellFormed(i)
    \/ \E i \in DOMAIN pending : TaskMalformed(i)
    \/ \E i \in DOMAIN pending : CatchupExpected(i)
    \/ \E i \in DOMAIN pending : TaskPut(i)
    \/ \E i \in DOMAIN pending : TaskEmit(i)
    \/ \E i \in DOMAIN pending : RecoverFetch(i)
    \/ \E i \in DOMAIN pending : RecoverPut(i)
    \/ \E i \in DOMAIN pending : RecoverEmit(i)
    \/ \E i \in DOMAIN pending : RecoverSave(i)
    \/ \E i \in DOMAIN pending : Reread(i)

SpecMalformed == Init /\ [][NextMalformed]_vars

\* The pre-images received for a ledger that holds the genesis block, which
\* enrolled the stakes GenesisKeys.
InitPreImage ==
    /\ agora = 1
    /\ stored = {0}
    /\ enrollments = {[utxo_key |-> u, enrolled_at |-> 0] : u \in GenesisKeys}
    /\ preimages = [u \in GenesisKeys |-> [enrolled_at |-> 0, height |-> 0]]
    /\ NoGovernance
    /\ Constructed

NextPreImage ==
    \/ Start
    \/ putPreImageOf
    \/ \E i \in DOMAIN pending : Dequeue(i)
    \/ \E i \in DOMAIN pending : Propagate(i)
    \/ \E i \in DOMAIN pending : CatchupExpected(i)
    \/ \E i \in DOMAIN pending : TaskPreImage(i)
    \/ \E i \in DOMAIN pending : OtherFails(i)

SpecPreImage == InitPreImage /\ [][NextPreImage]_vars

\* A chain posted block after block to an empty ledger, each block with the
\* stakes it enrolls.
InitValidators ==
    /\ agora = 0
    /\ stored = {}
    /\ NoEnrollment
    /\ NoGovernance
    /\ Constructed

NextValidators ==
    \/ Start
    \/ postBlockEnrolling
    \/ \E i \in DOMAIN pending : Dequeue(i)
    \/ \E i \in DOMAIN pending : CatchupExpected(i)
    \/ \E i \in DOMAIN pending : TaskExpected(i)
    \/ \E i \in DOMAIN pending : TaskPut(i)
    \/ \E i \in DOMAIN pending : TaskEmit(i)

SpecValidators == InitValidators /\ [][NextValidators]_vars

----------------------------------------------------------------------------
\* Governance: a chain that declares one proposal.  Agora externalises the
\* blocks one by one and posts each to Stoa, or fails to; Stoa recovers the
\* blocks it was not sent from Agora.

\* The proposals a chain can declare: declared before the vote starts.
Proposals ==
    {[declared_at |-> d, vote_start_height |-> s, vote_end_height |-> e,
      proposal_status |-> "NONE", proposal_result |-> "PENDING"] :
        d \in 0..(MaxVoteEnd - 1), s \in 1..MaxVoteEnd, e \in 1..MaxVoteEnd}

\* No submission is being processed.
Idle == \A i \in DOMAIN pending : pending[i].st = "resolved"

\* The blocks Agora externalised since Stoa started and did not post.
Unposted ==
    {h \in 0..getBlockHeight(agora) :
        /\ phase = "started"
        /\ h > pending[1].height
        /\ \A i \in DOMAIN pending :
              pending[i].type = "block" => pending[i].height # h}

\* Agora externalises the next block of the chain; at most one block is
\* never posted to a started Stoa.
AgoraExternalises ==
    /\ Idle
    /\ Cardinality(Unposted) <= 1
    /\ agora <= ProposalHeight
    /\ agora' = agora + 1
    /\ UNCHANGED <<phase, stored, pending, max_count_on_recovery, puts, fetches,
                   emitted, HeightManager, faulted, res, enrollments, preimages, proposal, chain, ballots, request, user, now, resets>>

\* POST /block_externalized with the block Agora externalised last.
postBlockTip ==
    LET height == getBlockHeight(agora)
    IN  /\ phase = "started"
        /\ height >= 0
        /\ \A i \in DOMAIN pending :
              pending[i].type = "block" => pending[i].height # height
        /\ pending' = Append(pending, [Task("block", height) EXCEPT
                                          !.tx = payload(height),
                                          !.enrolls = enrollmentsOf(payload(height))])
        /\ res' = Response("block", "value", 200)
        /\ UNCHANGED <<phase, agora, stored, puts, fetches, emitted, HeightManager, faulted, max_count_on_recovery, enrollments, preimages, proposal, chain, ballots, request, user, now, resets>>

InitProposal ==
    /\ agora = 0
    /\ stored = {}
    /\ enrollments = {}
    /\ preimages = <<>>
    /\ chain = <<>>
    /\ ballots = {}
    /\ proposal \in {p \in Proposals : /\ p.declared_at < p.vote_start_height
                                       /\ p.vote_start_height <= p.vote_end_height}
    /\ Constructed

NextProposal ==
    \/ Start
    \/ AgoraExternalises
    \/ postBlockTip
    \/ \E i \in DOMAIN pending : Dequeue(i)
    \/ \E i \in DOMAIN pending : CatchupExpected(i)
    \/ \E i \in DOMAIN pending : TaskExpected(i)
    \/ \E i \in DOMAIN pending : TaskPut(i)
    \/ \E i \in DOMAIN pending : TaskEmit(i)
    \/ \E i \in DOMAIN pending : RecoverFetch(i)
    \/ \E i \in DOMAIN pending : RecoverPut(i)
    \/ \E i \in DOMAIN pending : RecoverEmit(i)
    \/ \E i \in DOMAIN pending : RecoverSave(i)

SpecProposal == InitProposal /\ [][NextProposal]_vars

\* The block tasks whose block is not above every block posted before it.
Reposted ==
    {i \in DOMAIN pending :
        /\ pending[i].type = "block"
        /\ \E j \in 1..(i - 1) : /\ pending[j].type = "block"
                                 /\ pending[j].height >= pending[i].height}

\* POST /block_externalized with the last block of Agora posted once more,
\* or with the block before it posted after it; once in a run.
postBlockAgain ==
    /\ phase = "started"
    /\ Reposted = {}
    /\ \E height \in {getBlockHeight(agora) - 1, getBlockHeight(agora)} :
          /\ height >= 0
          /\ \E j \in DOMAIN pending : /\ pending[j].type = "block"
                                       /\ pending[j].height >= height
          /\ pending' = Append(pending, [Task("block", height) EXCEPT
                                            !.tx = payload(height),
                                            !.enrolls = enrollmentsOf(payload(height))])
    /\ res' = Response("block", "value", 200)
    /\ UNCHANGED <<phase, agora, stored, puts, fetches, emitted, HeightManager, faulted, max_count_on_recovery, enrollments, preimages, proposal, chain, ballots, request, user, now, resets>>

\* The chain of SpecProposal, with blocks delivered twice and out of order.
NextStatus ==
    \/ Start
    \/ AgoraExternalises
    \/ postBlockTip
    \/ postBlockAgain
    \/ \E i \in DOMAIN pending : Dequeue(i)
    \/ \E i \in DOMAIN pending : CatchupExpected(i)
    \/ \E i \in DOMAIN pending : TaskExpected(i)
    \/ \E i \in DOMAIN pending : TaskPut(i)
    \/ \E i \in DOMAIN pending : TaskEmit(i)
    \/ \E i \in DOMAIN pending : RecoverFetch(i)
    \/ \E i \in DOMAIN pending : RecoverPut(i)
    \/ \E i \in DOMAIN pending : RecoverEmit(i)
    \/ \E i \in DOMAIN pending : RecoverSave(i)

SpecStatus == InitProposal /\ [][NextStatus]_vars

----------------------------------------------------------------------------
\* Voting: a chain whose genesis block enrolled the committee and declared
\* one proposal, and whose blocks carry ballots around the voting window.

\* The validators enrolled by the genesis block, and those that vote.
Committee == {"u1", "u2", "u3", "u4"}
Voters == Keys

Answers == {"YES", "NO", "BLANK"}
BallotSequences == {1, 2}

\* The proposals of SpecBallot: declared by the genesis block, with a voting
\* window of two blocks inside the cycle of the committee.
BallotProposals ==
    {[declared_at |-> 0, vote_start_height |-> s, vote_end_height |-> s + 1,
      proposal_status |-> "PENDING", proposal_result |-> "PENDING"] :
        s \in 2..(CycleLength - 1)}

\* Highest block height of the chain in SpecBallot.
BallotHeight == CycleLength + TallyGrace + 1

\* The heights of the pre-images a ballot can be encrypted with.
KeyHeights(p) == {p.vote_end_height, p.vote_end_height + TallyGrace}

\* The ballot transactions a validator can send for the proposal p: any
\* answer in a first ballot, NO in a revote, YES in a ballot encrypted with
\* the pre-image of vote_end_height.
BallotTxs(p) ==
    {tx \in [kind : {"ballot"}, validator : Voters, sequence : BallotSequences,
             answer : Answers, key_height : KeyHeights(p)] :
        /\ tx.sequence > 1 => tx.answer = "NO"
        /\ tx.key_height = p.vote_end_height =>
              tx.answer = "YES" /\ tx.sequence = 1}

\* The ballot transactions of the chain.
BallotsSent == {n \in DOMAIN chain : chain[n].kind = "ballot"}

\* The height of the block that enrolls the voters again, for the cycle of
\* the tally: two blocks before the tally.
reenrolledAt(p) == keyHeight(p) - 2

\* The stakes whose pre-image of the height of the key was posted.
Revealed ==
    {pending[i].utxo : i \in {j \in DOMAIN pending :
        pending[j].type = "pre_image" /\ pending[j].height = keyHeight(proposal)}}

\* POST /preimage_received with the pre-image a voter publishes for the
\* height of the key.
putPreImageKey ==
    \E utxo \in Voters \ Revealed :
        /\ phase = "started"
        /\ pending' = Append(pending,
                TaskOf("pre_image", keyHeight(proposal), {}, utxo))
        /\ res' = Response("pre_image", "value", 200)
        /\ UNCHANGED <<phase, agora, stored, puts, fetches, emitted, HeightManager, faulted, max_count_on_recovery, enrollments, preimages, proposal, chain, ballots, request, user, now, resets>>

\* The voters publish the pre-image right after the block that enrolled
\* them again, as the test does.
putPreImageInTime ==
    /\ Idle
    /\ agora = reenrolledAt(proposal) + 1
    /\ stored # {} /\ reenrolledAt(proposal) \in stored
    /\ putPreImageKey

\* The transactions the block of height h can carry: a ballot from one block
\* before the voting window to one block after it, two in all; the block
\* two blocks before the tally enrolls the voters again.
Txs(h) ==
    IF h = reenrolledAt(proposal)
    THEN {[kind |-> "reenroll", validators |-> Voters]}
    ELSE {NoTx} \cup
         {tx \in BallotTxs(proposal) :
             /\ proposal.vote_start_height - 1 <= h
             /\ h <= proposal.vote_end_height + 1
             /\ Cardinality(BallotsSent) < Cardinality(Voters)}

\* Agora externalises the next block of the chain, with its transaction.
AgoraExternalisesTx ==
    /\ phase = "started"
    /\ Idle
    /\ Unposted = {}
    /\ agora = reenrolledAt(proposal) + 1 => Revealed = Voters
    /\ agora <= BallotHeight
    /\ agora' = agora + 1
    /\ \E tx \in Txs(agora) : chain' = Append(chain, tx)
    /\ UNCHANGED <<phase, stored, pending, max_count_on_recovery, puts, fetches,
                   emitted, HeightManager, faulted, res, enrollments, preimages,
                   proposal, ballots, request, user, now, resets>>

InitBallot ==
    /\ agora = 1
    /\ stored = {0}
    /\ enrollments = {[utxo_key |-> u, enrolled_at |-> 0] : u \in Committee}
    /\ preimages = [u \in Committee |-> [enrolled_at |-> 0, height |-> 0]]
    /\ proposal \in BallotProposals
    /\ chain = <<NoTx>>
    /\ ballots = {}
    /\ Constructed

NextBallot ==
    \/ Start
    \/ AgoraExternalisesTx
    \/ postBlockTip
    \/ putPreImageInTime
    \/ \E i \in DOMAIN pending : TaskPreImage(i)
    \/ \E i \in DOMAIN pending : Dequeue(i)
    \/ \E i \in DOMAIN pending : CatchupExpected(i)
    \/ \E i \in DOMAIN pending : TaskExpected(i)
    \/ \E i \in DOMAIN pending : TaskPut(i)
    \/ \E i \in DOMAIN pending : TaskEmit(i)

SpecBallot == InitBallot /\ [][NextBallot]_vars

----------------------------------------------------------------------------
\* The same ledgers, with the pre-images of the voters arriving at any time
\* from the moment Agora holds the block that enrolls them again.

putPreImageAnyTime ==
    /\ agora > reenrolledAt(proposal)
    /\ putPreImageKey

\* The transactions the block of height h can carry: in the voting window a
\* first ballot answering YES or NO, encrypted with the key of the tally.
TxsReveal(h) ==
    IF h = reenrolledAt(proposal)
    THEN {[kind |-> "reenroll", validators |-> Voters]}
    ELSE {NoTx} \cup
         {tx \in BallotTxs(proposal) :
             /\ proposal.vote_start_height <= h
             /\ h <= proposal.vote_end_height
             /\ tx.sequence = 1
             /\ tx.answer \in {"YES", "NO"}
             /\ tx.key_height = keyHeight(proposal)}

\* Agora externalises its next block whether or not the pre-images were
\* published.
AgoraExternalisesUnrevealed ==
    /\ phase = "started"
    /\ Idle
    /\ Unposted = {}
    /\ agora <= BallotHeight
    /\ agora' = agora + 1
    /\ \E tx \in TxsReveal(agora) : chain' = Append(chain, tx)
    /\ UNCHANGED <<phase, stored, pending, max_count_on_recovery, puts, fetches,
                   emitted, HeightManager, faulted, res, enrollments, preimages,
                   proposal, ballots, request, user, now, resets>>

\* One proposal, voting in the last two blocks of the first cycle.
InitReveal ==
    /\ InitBallot
    /\ proposal.vote_end_height = CycleLength

NextReveal ==
    \/ Start
    \/ AgoraExternalisesUnrevealed
    \/ postBlockTip
    \/ putPreImageAnyTime
    \/ \E i \in DOMAIN pending : TaskPreImage(i)
    \/ \E i \in DOMAIN pending : Dequeue(i)
    \/ \E i \in DOMAIN pending : CatchupExpected(i)
    \/ \E i \in DOMAIN pending : TaskExpected(i)
    \/ \E i \in DOMAIN pending : TaskPut(i)
    \/ \E i \in DOMAIN pending : TaskEmit(i)

SpecReveal == InitReveal /\ [][NextReveal]_vars

----------------------------------------------------------------------------
\* The declaration of a proposal: blocks carry ProposalFee transactions and
\* Proposal declarations that refer to them, in any order.

\* The fee a declaration asks for.
ProposalFee == 2

\* The number of blocks of the chain.
FeeHeight == 4

\* The ProposalFee transactions: the hash stands for the transaction, which
\* names a proposal and pays the fee destination the fee or less.
FeeTxs ==
    {[kind |-> "fee", hash |-> "f1", proposal_id |-> "p1", paid |-> ProposalFee],
     [kind |-> "fee", hash |-> "f2", proposal_id |-> "p1", paid |-> ProposalFee - 1],
     [kind |-> "fee", hash |-> "f3", proposal_id |-> "p2", paid |-> ProposalFee]}

\* The declarations of the proposal p1, each referring to a fee transaction.
ProposalTxs ==
    {[kind |-> "proposal", proposal_id |-> "p1", fee_tx_hash |-> f,
      proposal_fee |-> ProposalFee,
      vote_start_height |-> FeeHeight + 1, vote_end_height |-> FeeHeight + 2] :
        f \in {"f1", "f2", "f3"}}

\* Agora externalises its next block, with no transaction, a ProposalFee
\* transaction or a declaration.
AgoraExternalisesFee ==
    /\ phase = "started"
    /\ Idle
    /\ Unposted = {}
    /\ agora <= FeeHeight
    /\ agora' = agora + 1
    /\ \E tx \in {NoTx} \cup FeeTxs \cup ProposalTxs : chain' = Append(chain, tx)
    /\ UNCHANGED <<phase, stored, pending, max_count_on_recovery, puts, fetches,
                   emitted, HeightManager, faulted, res, enrollments, preimages,
                   proposal, ballots, request, user, now, resets>>

InitFee ==
    /\ agora = 1
    /\ stored = {0}
    /\ NoEnrollment
    /\ proposal = NoProposal
    /\ chain = <<NoTx>>
    /\ ballots = {}
    /\ Constructed

NextFee ==
    \/ Start
    \/ AgoraExternalisesFee
    \/ postBlockTip
    \/ \E i \in DOMAIN pending : Dequeue(i)
    \/ \E i \in DOMAIN pending : CatchupExpected(i)
    \/ \E i \in DOMAIN pending : TaskExpected(i)
    \/ \E i \in DOMAIN pending : TaskPut(i)
    \/ \E i \in DOMAIN pending : TaskEmit(i)

SpecFee == InitFee /\ [][NextFee]_vars

----------------------------------------------------------------------------
\* The read endpoints: one request, answered from the ledger storage.

\* Stoa.limit_page_size
limit_page_size == 100

\* A query parameter: absent, or given with its text, one character each.
Absent == [given |-> FALSE, text |-> <<>>]
Given(text) == [given |-> TRUE, text |-> text]

Digits == {"0", "1", "2", "3", "4", "5", "6", "7", "8", "9"}

DigitValue ==
    ("0" :> 0) @@ ("1" :> 1) @@ ("2" :> 2) @@ ("3" :> 3) @@ ("4" :> 4) @@
    ("5" :> 5) @@ ("6" :> 6) @@ ("7" :> 7) @@ ("8" :> 8) @@ ("9" :> 9)

\* The text is one or more decimal digits.
isDigits(text) == text # <<>> /\ \A n \in DOMAIN text : text[n] \in Digits

\* The number a text of decimal digits reads as.
RECURSIVE valueOf(_)
valueOf(text) ==
    IF text = <<>> THEN 0
    ELSE 10 * valueOf(SubSeq(text, 1, Len(text) - 1)) + DigitValue[text[Len(text)]]

\* The text without the sign it starts with.
unsigned(text, signs) ==
    IF text # <<>> /\ Head(text) \in signs THEN Tail(text) ELSE text

\* Utils.isPositiveInteger: decimal digits, after an optional plus sign,
\* that read as a positive number.
isPositiveInteger(text) ==
    /\ isDigits(unsigned(text, {"+"}))
    /\ valueOf(unsigned(text, {"+"})) > 0

\* Number(text) === 0: the empty text and signed or unsigned zeros.
NumberIsZero(text) ==
    \/ text = <<>>
    \/ /\ isDigits(unsigned(text, {"+", "-"}))
       /\ valueOf(unsigned(text, {"+", "-"})) = 0

\* Number(text) of a text that isPositiveInteger accepts.
Number(text) == valueOf(unsigned(text, {"+"}))

\* Stoa.paginate: the pagination the promise resolves with, or the status
\* of the response sent, after which the promise stays pending.
paginate(page, pageSize) ==
    IF page.given /\ ~NumberIsZero(page.text) /\ ~isPositiveInteger(page.text)
    THEN [resolved |-> FALSE, status |-> 400]
    ELSE IF pageSize.given /\ ~isPositiveInteger(pageSize.text)
    THEN [resolved |-> FALSE, status |-> 400]
    ELSE IF pageSize.given /\ Number(pageSize.text) > limit_page_size
    THEN [resolved |-> FALSE, status |-> 400]
    ELSE [resolved |-> TRUE,
          page |-> IF page.given /\ ~NumberIsZero(page.text)
                   THEN Number(page.text) ELSE 1,
          pageSize |-> IF pageSize.given THEN Number(pageSize.text) ELSE 10]

\* LedgerStorage.getLatestBlocks: the page of the stored blocks, from the
\* highest one down.
getLatestBlocks(limit, page) ==
    {h \in stored :
        LET above == Cardinality({g \in stored : g > h})
        IN  (page - 1) * limit <= above /\ above < page * limit}

\* The texts of the query parameters page and pageSize of a request.
PageTexts ==
    {<<"1">>, <<"2">>, <<"0">>, <<"0", "0">>, <<>>, <<"-", "1">>, <<"a">>,
     <<"+", "1">>}

PageSizeTexts ==
    {<<"1">>, <<"1", "0", "0">>, <<"1", "0", "1">>, <<"0">>, <<>>,
     <<"-", "1">>, <<"a">>}

\* The ways a query of the store ends: with its rows, with undefined, or
\* rejected.
StoreOutcomes == {"rows", "undefined", "rejected"}

\* The requests: GET /latest-blocks, /validators, /validator/:address and
\* /block_height, not answered yet.
Requests ==
    UNION {
        {[endpoint |-> "/latest-blocks", page |-> p, pageSize |-> z,
          height |-> NoHeight, address |-> "none", store |-> o,
          pc |-> "received", sent |-> <<>>, queries |-> 0] :
            p \in {Absent} \cup {Given(t) : t \in PageTexts},
            z \in {Absent} \cup {Given(t) : t \in PageSizeTexts},
            o \in StoreOutcomes},
        {[endpoint |-> e, page |-> Absent, pageSize |-> Absent,
          height |-> h, address |-> a, store |-> o,
          pc |-> "received", sent |-> <<>>, queries |-> 0] :
            e \in {"/validators", "/validator/:address"},
            h \in {NoHeight} \cup (0..(CycleLength + 1)),
            a \in Keys, o \in {"rows", "rejected"}},
        {[endpoint |-> "/block_height", page |-> Absent, pageSize |-> Absent,
          height |-> NoHeight, address |-> "none", store |-> o,
          pc |-> "received", sent |-> <<>>, queries |-> 0] :
            o \in {"rows", "rejected"}}}

\* Stoa.getLatestBlocks up to `await this.paginate(req, res)`: a rejected
\* pagination was answered by paginate, and the handler never resumes.
getLatestBlocksPaginate ==
    /\ request.endpoint = "/latest-blocks"
    /\ request.pc = "received"
    /\ LET pagination == paginate(request.page, request.pageSize)
       IN  request' =
               IF pagination.resolved
               THEN [request EXCEPT !.pc = "paginated"]
               ELSE [request EXCEPT !.sent = Append(@, pagination.status),
                                    !.pc = "pending"]
    /\ UNCHANGED <<phase, agora, stored, pending, max_count_on_recovery, puts, fetches, emitted, HeightManager, faulted, res, enrollments, preimages, proposal, chain, ballots, user, now, resets>>

\* Stoa.getLatestBlocks from the query of the store on: 500 when the data
\* is undefined, 204 when it is empty, else 200; a rejection of the store
\* has no handler.
getLatestBlocksThen ==
    /\ request.endpoint = "/latest-blocks"
    /\ request.pc = "paginated"
    /\ LET pagination == paginate(request.page, request.pageSize)
           data == getLatestBlocks(pagination.pageSize, pagination.page)
           queried == [request EXCEPT !.queries = @ + 1]
       IN  request' =
               IF request.store = "rejected"
               THEN [queried EXCEPT !.pc = "unhandled"]
               ELSE [queried EXCEPT !.pc = "done", !.sent = Append(@,
                        IF request.store = "undefined" THEN 500
                        ELSE IF data = {} THEN 204 ELSE 200)]
    /\ UNCHANGED <<phase, agora, stored, pending, max_count_on_recovery, puts, fetches, emitted, HeightManager, faulted, res, enrollments, preimages, proposal, chain, ballots, user, now, resets>>

\* GET /validators: the status of getValidators, or 500 when the store
\* rejects.
getValidatorsRequest ==
    /\ request.endpoint = "/validators"
    /\ request.pc = "received"
    /\ request' = [request EXCEPT !.queries = @ + 1, !.pc = "done",
            !.sent = Append(@, IF request.store = "rejected" THEN 500
                               ELSE getValidators(request.height).status)]
    /\ UNCHANGED <<phase, agora, stored, pending, max_count_on_recovery, puts, fetches, emitted, HeightManager, faulted, res, enrollments, preimages, proposal, chain, ballots, user, now, resets>>

\* The rows of getValidatorsAPI(height, address).
getValidatorAPI(height, address) ==
    {row \in getValidatorsAPI(height) : row.utxo_key = address}

\* GET /validator/:address: 400 when the store returns no row, 500 when it
\* rejects.
getValidator ==
    /\ request.endpoint = "/validator/:address"
    /\ request.pc = "received"
    /\ request' = [request EXCEPT !.queries = @ + 1, !.pc = "done",
            !.sent = Append(@,
                IF request.store = "rejected" THEN 500
                ELSE IF getValidatorAPI(request.height, request.address) = {}
                     THEN 400 ELSE 200)]
    /\ UNCHANGED <<phase, agora, stored, pending, max_count_on_recovery, puts, fetches, emitted, HeightManager, faulted, res, enrollments, preimages, proposal, chain, ballots, user, now, resets>>

\* GET /block_height: 400 when the store holds no block, 500 when it
\* rejects.
getBlockHeightRequest ==
    /\ request.endpoint = "/block_height"
    /\ request.pc = "received"
    /\ request' = [request EXCEPT !.queries = @ + 1, !.pc = "done",
            !.sent = Append(@, IF request.store = "rejected" THEN 500
                               ELSE IF stored = {} THEN 400 ELSE 200)]
    /\ UNCHANGED <<phase, agora, stored, pending, max_count_on_recovery, puts, fetches, emitted, HeightManager, faulted, res, enrollments, preimages, proposal, chain, ballots, user, now, resets>>

\* The ledger of a request: empty, or the blocks up to ReadHeight, the
\* genesis block having enrolled one validator or none.
ReadHeight == 1

InitRead ==
    /\ agora = ReadHeight + 1
    /\ stored \in {{}, 0..ReadHeight}
    /\ enrollments \in
            {{}, IF stored = {} THEN {}
                 ELSE {[utxo_key |-> "u1", enrolled_at |-> 0]}}
    /\ preimages = [u \in {e.utxo_key : e \in enrollments} |->
                        [enrolled_at |-> 0, height |-> 0]]
    /\ NoGovernance
    /\ Unstarted
    /\ request \in Requests

NextRead ==
    \/ getLatestBlocksPaginate
    \/ getLatestBlocksThen
    \/ getValidatorsRequest
    \/ getValidator
    \/ getBlockHeightRequest

SpecRead == InitRead /\ [][NextRead]_vars

----------------------------------------------------------------------------
(* The pre-image a validator is reported with *)

\* Highest of the heights a row of getValidatorsAPI is drawn with.
MaxRowHeight == 3

\* A hash value: what was hashed, and how many times.
\* `new Hash(Buffer.alloc(Hash.Width))`, the hash of zero bytes only.
ZeroHash == [of |-> "zero", times |-> 0]

\* hash(data): one more application.
hash(h) == [h EXCEPT !.times = @ + 1]

\* JSBI toString of a number that is not negative: its decimal digits.
RECURSIVE toString(_)
toString(n) ==
    LET digit(d) == CHOOSE c \in Digits : DigitValue[c] = d
    IN  IF n < 10 THEN <<digit(n)>>
        ELSE toString(n \div 10) \o <<digit(n % 10)>>

\* `for (let i = 0; i < count; i++)`: the hash is hashed once more and the
\* pre-image height goes down by one, count times.
RECURSIVE hashing(_, _, _)
hashing(result_preimage_hash, preimage_height, count) ==
    IF count <= 0
    THEN [hash |-> result_preimage_hash, height |-> preimage_height]
    ELSE hashing(hash(result_preimage_hash), preimage_height - 1, count - 1)

\* IPreimage that reports the stored pre-image as it is, not hashed.
IPreimage_unhashed(row) ==
    IF /\ row.height >= row.avail_height
       /\ row.avail_height + row.preimage_height >= row.height
    THEN [height |-> toString(row.preimage_height), hash |-> row.preimage_hash]
    ELSE IF row.height = row.enrolled_at
         THEN [height |-> <<"0">>, hash |-> row.commitment]
         ELSE [height |-> <<>>, hash |-> ZeroHash]

\* The pre-image of a row of getValidatorsAPI, as getValidators and
\* getValidator compute it.
IPreimage(row) ==
    IF /\ row.height >= row.avail_height
       /\ row.avail_height + row.preimage_height >= row.height
    THEN LET r == hashing(row.preimage_hash, row.preimage_height,
                          (row.avail_height + row.preimage_height) - row.height)
         IN  [height |-> toString(r.height), hash |-> r.hash]
    ELSE IF row.height = row.enrolled_at
         THEN [height |-> <<"0">>, hash |-> row.commitment]
         ELSE [height |-> <<>>, hash |-> ZeroHash]

\* The rows getValidatorsAPI answers with: one validator, the height asked
\* for, the height its enrollment is available from, and the pre-image the
\* registry holds with its height counted from there.
Rows ==
    {[address |-> "u1", enrolled_at |-> e, height |-> t, avail_height |-> a,
      preimage_height |-> p,
      preimage_hash |-> [of |-> "preimage", times |-> 0],
      commitment |-> [of |-> "commitment", times |-> 0]] :
        e \in 0..MaxRowHeight, t \in 0..(MaxRowHeight + 1),
        a \in 0..MaxRowHeight, p \in 0..MaxRowHeight}

\* GET /validators with rows found: 200 and the validator with its
\* pre-image.
getValidatorsThen ==
    /\ request.endpoint = "/validators"
    /\ request.pc = "rows"
    /\ request' = [request EXCEPT !.pc = "done",
            !.sent = Append(@, [status |-> 200,
                                address |-> request.row.address,
                                preimage |-> IPreimage(request.row)])]
    /\ UNCHANGED <<phase, agora, stored, pending, max_count_on_recovery, puts, fetches, emitted, HeightManager, faulted, res, enrollments, preimages, proposal, chain, ballots, user, now, resets>>

\* GET /validator/:address with rows found.
getValidatorThen ==
    /\ request.endpoint = "/validator/:address"
    /\ request.pc = "rows"
    /\ request' = [request EXCEPT !.pc = "done",
            !.sent = Append(@, [status |-> 200,
                                address |-> request.row.address,
                                preimage |-> IPreimage(request.row)])]
    /\ UNCHANGED <<phase, agora, stored, pending, max_count_on_recovery, puts, fetches, emitted, HeightManager, faulted, res, enrollments, preimages, proposal, chain, ballots, user, now, resets>>

InitDerive ==
    /\ agora = 0
    /\ stored = {}
    /\ NoEnrollment
    /\ NoGovernance
    /\ Unstarted
    /\ request \in {[endpoint |-> e, row |-> row, pc |-> "rows", sent |-> <<>>] :
                        e \in {"/validators", "/validator/:address"},
                        row \in Rows}

NextDerive ==
    \/ getValidatorsThen
    \/ getValidatorThen

SpecDerive == InitDerive /\ [][NextDerive]_vars

----------------------------------------------------------------------------
(* The search of the access logs and of the operation logs *)

\* Highest number of log records that match the conditions of a search.
MaxLogs == 6

\* collection.find(condition).skip(skip).limit(limit).toArray: of the
\* `matching` records that meet the condition, numbered from 1 in the order
\* of the collection, those after the first `skip`, at most `limit` of them.
find(matching, skip, limit) ==
    [n \in 1..Min(limit, IF matching > skip THEN matching - skip ELSE 0) |->
        skip + n]

\* `(pagination.page - 1) * pagination.page`, the argument of skip.
skipOf(pagination) == (pagination.page - 1) * pagination.page

LogEndpoints == {"/accesslogs/search", "/operationlogs/search"}

\* searchAccessLogs and searchOperationLogs up to `await this.paginate`: a
\* refused pagination was answered by paginate, and the handler never
\* resumes.
searchLogsPaginate ==
    /\ request.endpoint \in LogEndpoints
    /\ request.pc = "received"
    /\ LET pagination == paginate(request.page, request.pageSize)
       IN  request' =
               IF pagination.resolved
               THEN [request EXCEPT !.pc = "paginated"]
               ELSE [request EXCEPT !.sent = Append(@, [status |-> pagination.status,
                                                        body |-> <<>>]),
                                    !.pc = "pending"]
    /\ UNCHANGED <<phase, agora, stored, pending, max_count_on_recovery, puts, fetches, emitted, HeightManager, faulted, res, enrollments, preimages, proposal, chain, ballots, user, now, resets>>

\* The request once the collection was searched: 200 with the records
\* found.
searched ==
    LET pagination == paginate(request.page, request.pageSize)
    IN  [request EXCEPT !.pc = "done",
            !.sent = Append(@, [status |-> 200,
                body |-> find(request.matching, skipOf(pagination),
                              pagination.pageSize)])]

\* The rest of searchAccessLogs.
searchAccessLogs ==
    /\ request.endpoint = "/accesslogs/search"
    /\ request.pc = "paginated"
    /\ request' = searched
    /\ UNCHANGED <<phase, agora, stored, pending, max_count_on_recovery, puts, fetches, emitted, HeightManager, faulted, res, enrollments, preimages, proposal, chain, ballots, user, now, resets>>

\* The rest of searchOperationLogs.
searchOperationLogs ==
    /\ request.endpoint = "/operationlogs/search"
    /\ request.pc = "paginated"
    /\ request' = searched
    /\ UNCHANGED <<phase, agora, stored, pending, max_count_on_recovery, puts, fetches, emitted, HeightManager, faulted, res, enrollments, preimages, proposal, chain, ballots, user, now, resets>>

\* The searches: the texts of page and pageSize, and the number of records
\* that match the other parameters.
InitLogs ==
    /\ agora = 0
    /\ stored = {}
    /\ NoEnrollment
    /\ NoGovernance
    /\ Unstarted
    /\ request \in
          {[endpoint |-> e, page |-> p, pageSize |-> z, matching |-> m,
            pc |-> "received", sent |-> <<>>] :
              e \in LogEndpoints,
              p \in {Absent, Given(<<"1">>), Given(<<"2">>), Given(<<"3">>),
                     Given(<<"0">>), Given(<<"a">>)},
              z \in {Absent, Given(<<"1">>), Given(<<"2">>), Given(<<"3">>),
                     Given(<<"0">>)},
              m \in 0..MaxLogs}

NextLogs ==
    \/ searchLogsPaginate
    \/ searchAccessLogs
    \/ searchOperationLogs

SpecLogs == InitLogs /\ [][NextLogs]_vars

----------------------------------------------------------------------------
(* The reset of the password of the administrator *)

\* generatePasswordReset: the milliseconds a reset token is valid for.
Hour == 3600000
\* Number of half hours the clock advances by in one run.
MaxTicks == 3
\* Number of requests of /recover in one run.
MaxTokens == 2
\* Number of requests of POST /reset/:token that wait for user.save() at
\* one time.
MaxSaving == 2

\* The number of tokens /recover has issued.
Issued == Len(resets.issued)

\* The tokens a request of /reset/:token carries: the ones /recover has
\* issued, and one it has not issued.
Tokens == 1..(Issued + 1)

\* userSchema.methods.generatePasswordReset: a token of random bytes, which
\* no earlier call has produced, and the time it expires at.
generatePasswordReset(u) ==
    [u EXCEPT !.resetPasswordToken = Issued + 1,
              !.resetPasswordExpires = now + Hour]

\* User.findOne({ resetPasswordToken: token, resetPasswordExpires: { $gt:
\* Date.now() } }) finds the document.
findOne(token) ==
    /\ user.resetPasswordToken = token
    /\ user.resetPasswordExpires > now

\* A request of /reset/:token as its handler starts: `fresh` tells whether
\* the token was issued less than an hour ago, `used` whether a POST
\* /reset/:token with the token has succeeded; `handler` tells the calls of
\* resetPassword that wait at one time apart; status 0 stands for no
\* response yet.
ResetRequest(method, token) ==
    [method |-> method, token |-> token, status |-> 0,
     handler |-> CHOOSE n \in 0..Cardinality(resets.saving) :
                     \A r \in resets.saving : r.handler # n,
     fresh |-> token <= Issued /\ now < resets.issued[token] + Hour,
     used |-> token \in resets.used]

\* Time passes.
Tick ==
    /\ now < MaxTicks * (Hour \div 2)
    /\ now' = now + (Hour \div 2)
    /\ UNCHANGED <<phase, agora, stored, pending, max_count_on_recovery, puts, fetches, emitted, HeightManager, faulted, res, enrollments, preimages, proposal, chain, ballots, request, user, resets>>

\* POST /recover for the account: a new token replaces the one the document
\* holds, and the document is saved.
recover ==
    /\ Issued < MaxTokens
    /\ user' = generatePasswordReset(user)
    /\ resets' = [resets EXCEPT !.issued = Append(@, now)]
    /\ UNCHANGED <<phase, agora, stored, pending, max_count_on_recovery, puts, fetches, emitted, HeightManager, faulted, res, enrollments, preimages, proposal, chain, ballots, request, now>>

\* GET /reset/:token: 200 when findOne finds the document, else 401.
reset ==
    /\ \E token \in Tokens :
          resets' = [resets EXCEPT !.last =
              [ResetRequest("GET", token) EXCEPT
                  !.status = IF findOne(token) THEN 200 ELSE 401]]
    /\ UNCHANGED <<phase, agora, stored, pending, max_count_on_recovery, puts, fetches, emitted, HeightManager, faulted, res, enrollments, preimages, proposal, chain, ballots, request, user, now>>

\* POST /reset/:token up to `await user.save()`: 401 when findOne finds no
\* document.
resetPassword ==
    /\ Cardinality(resets.saving) < MaxSaving
    /\ \E token \in Tokens :
          resets' =
              IF findOne(token)
              THEN [resets EXCEPT !.saving = @ \cup {ResetRequest("POST", token)}]
              ELSE [resets EXCEPT !.last =
                        [ResetRequest("POST", token) EXCEPT !.status = 401]]
    /\ UNCHANGED <<phase, agora, stored, pending, max_count_on_recovery, puts, fetches, emitted, HeightManager, faulted, res, enrollments, preimages, proposal, chain, ballots, request, user, now>>

\* resetPasswordSave that leaves the token in the document.
resetPasswordSave_keepsToken(r) ==
    /\ user' = [user EXCEPT !.password = "reset", !.isVerified = TRUE]
    /\ resets' = [resets EXCEPT !.saving = @ \ {r},
                                !.used = @ \cup {r.token},
                                !.last = [r EXCEPT !.status = 200]]
    /\ UNCHANGED <<phase, agora, stored, pending, max_count_on_recovery, puts, fetches, emitted, HeightManager, faulted, res, enrollments, preimages, proposal, chain, ballots, request, now>>

\* The rest of resetPassword: the document found is saved with the new
\* password and without token and expiry, and 200 is sent.
resetPasswordSave(r) ==
    /\ user' = [user EXCEPT !.password = "reset",
                            !.resetPasswordToken = NoToken,
                            !.resetPasswordExpires = NoExpiry,
                            !.isVerified = TRUE]
    /\ resets' = [resets EXCEPT !.saving = @ \ {r},
                                !.used = @ \cup {r.token},
                                !.last = [r EXCEPT !.status = 200]]
    /\ UNCHANGED <<phase, agora, stored, pending, max_count_on_recovery, puts, fetches, emitted, HeightManager, faulted, res, enrollments, preimages, proposal, chain, ballots, request, now>>

\* user.save() rejects: the error is logged and no response is sent.
resetPasswordSaveFails(r) ==
    /\ resets' = [resets EXCEPT !.saving = @ \ {r}]
    /\ UNCHANGED <<phase, agora, stored, pending, max_count_on_recovery, puts, fetches, emitted, HeightManager, faulted, res, enrollments, preimages, proposal, chain, ballots, request, user, now>>

InitReset ==
    /\ agora = 0
    /\ stored = {}
    /\ NoEnrollment
    /\ NoGovernance
    /\ Constructed

NextReset ==
    \/ Tick
    \/ recover
    \/ reset
    \/ resetPassword
    \/ \E r \in resets.saving : resetPasswordSave(r)
    \/ \E r \in resets.saving : resetPasswordSaveFails(r)

SpecReset == InitReset /\ [][NextReset]_vars

----------------------------------------------------------------------------
\* Voting while the validator set changes: the genesis block enrolled one
\* validator, and a block around the voting window can enroll a second one.

\* The proposals of SpecEnrolling: declared by the genesis block, with a
\* voting window of three blocks inside the cycle of the first validator.
EnrollingProposals ==
    {[declared_at |-> 0, vote_start_height |-> s, vote_end_height |-> s + 2,
      proposal_status |-> "PENDING", proposal_result |-> "PENDING"] :
        s \in 1..(CycleLength - 2)}

\* The first ballots, answering YES, and the enrollments that a block can
\* carry from the block before the voting window to the block after it.
TxsEnrolling(h) ==
    {NoTx} \cup
    {tx \in BallotTxs(proposal) \cup
            {[kind |-> "enroll", validator |-> v] : v \in Voters \ GenesisKeys} :
        /\ proposal.vote_start_height - 1 <= h
        /\ h <= proposal.vote_end_height + 1
        /\ tx.kind = "ballot" =>
              /\ tx.answer = "YES"
              /\ tx.sequence = 1
              /\ tx.key_height = keyHeight(proposal)
              /\ Cardinality(BallotsSent) < Cardinality(Voters)}

\* Agora externalises the next block of the chain, with its transaction.
AgoraExternalisesEnrolling ==
    /\ phase = "started"
    /\ Idle
    /\ Unposted = {}
    /\ agora <= BallotHeight
    /\ agora' = agora + 1
    /\ \E tx \in TxsEnrolling(agora) : chain' = Append(chain, tx)
    /\ UNCHANGED <<phase, stored, pending, max_count_on_recovery, puts, fetches,
                   emitted, HeightManager, faulted, res, enrollments, preimages,
                   proposal, ballots, request, user, now, resets>>

InitEnrolling ==
    /\ agora = 1
    /\ stored = {0}
    /\ enrollments = {[utxo_key |-> u, enrolled_at |-> 0] : u \in GenesisKeys}
    /\ preimages = [u \in GenesisKeys |-> [enrolled_at |-> 0, height |-> 0]]
    /\ proposal \in EnrollingProposals
    /\ chain = <<NoTx>>
    /\ ballots = {}
    /\ Constructed

NextEnrolling ==
    \/ Start
    \/ AgoraExternalisesEnrolling
    \/ postBlockTip
    \/ \E i \in DOMAIN pending : Dequeue(i)
    \/ \E i \in DOMAIN pending : CatchupExpected(i)
    \/ \E i \in DOMAIN pending : TaskExpected(i)
    \/ \E i \in DOMAIN pending : TaskPut(i)
    \/ \E i \in DOMAIN pending : TaskEmit(i)

SpecEnrolling == InitEnrolling /\ [][NextEnrolling]_vars


----------------------------------------------------------------------------
(* Vocabulary of the properties *)

Tasks == DOMAIN pending
BlockTasks == {i \in Tasks : pending[i].type = "block"}

\* Every chained task has run to its end and nothing failed.
Quiescent ==
    /\ phase = "started"
    /\ ~faulted
    /\ \A i \in Tasks : pending[i].st = "resolved"

\* The heights of the blocks posted, in the order of the posts.
PostedHeights ==
    LET isBlock(t) == t.type = "block"
        bs == SelectSeq(pending, isBlock)
    IN  [k \in 1..Len(bs) |-> bs[k].height]

\* The calls of putBlocks made by task i, in call order, and their heights.
PutsBy(i) ==
    LET mine(c) == c.by = i
    IN  SelectSeq(puts, mine)
PutHeightsBy(i) == [k \in 1..Len(PutsBy(i)) |-> PutsBy(i)[k].height]

FetchesBy(i) ==
    LET mine(c) == c.by = i
    IN  SelectSeq(fetches, mine)

\* The heights of the blocks this run has committed.
Committed == {puts[k].height : k \in {n \in 1..Len(puts) : puts[n].ok}}

Count(kind, h) ==
    Cardinality({k \in 1..Len(emitted) : emitted[k] = <<kind, h>>})

\* Task i went through recovery: its block was ahead of the expected height.
Recovered(i) ==
    /\ pending[i].type = "block"
    /\ pending[i].first_expected >= 0
    /\ pending[i].height > pending[i].first_expected

----------------------------------------------------------------------------
(* Properties *)

\* C1: once the blocks 0..n-1 of the chain have been posted in height order
\* and every task has ended without a failure, the expected height is n and
\* the stored heights are exactly 0..n-1 (n = 0: an empty store expects 0).
\* The ledger held at most n blocks at start and Agora's tip was below n.
C1_PrefixLength ==
    LET n == Len(PostedHeights)
    IN  ( /\ Quiescent
          /\ PostedHeights = [k \in 1..n |-> k - 1]
          /\ pending[1].first_expected <= n
          /\ pending[1].height < n )
        => /\ getExpectedBlockHeight(stored) = n
           /\ stored = 0..(n - 1)

C1_Witness ==
    /\ Quiescent
    /\ PostedHeights = <<0, 1>>
    /\ pending[1].first_expected = 0
    /\ \A i \in BlockTasks : pending[i].pc = "done" /\ pending[i].passes = 0
    /\ stored = {0, 1}

\* C2: a task is started only when every task chained before it has
\* finished, so at most one task is running and tasks start in the order in
\* which they were chained, whatever is posted while a task is suspended.
C2_Serial ==
    /\ \A i \in Tasks :
          (pending[i].st = "running" \/ pending[i].pc \notin {"begin", "never"})
          => \A j \in 1..(i - 1) : pending[j].st = "resolved"
    /\ Cardinality({i \in Tasks : pending[i].st = "running"}) <= 1

C2_Witness ==
    \E i \in Tasks :
        /\ i > 1
        /\ pending[i].st = "running"
        /\ pending[i].pc \in {"put", "loop", "save", "reread", "tip"}
        /\ i + 1 \in Tasks
        /\ pending[i + 1].st = "waiting"

\* C3: every call of putBlocks is made for the height the store expects at
\* that moment; no height is stored twice and the stored heights have no gap.
C3_AtMostOnce ==
    /\ \A k \in 1..Len(puts) : puts[k].height = puts[k].expected
    /\ \A k, l \in 1..Len(puts) :
          (puts[k].ok /\ puts[l].ok /\ puts[k].height = puts[l].height) => k = l
    /\ stored = 0..(getExpectedBlockHeight(stored) - 1)

C3_Witness ==
    /\ ~faulted
    /\ \E i, j \in BlockTasks :
          /\ i < j
          /\ pending[i].st = "resolved" /\ pending[i].passes >= 2
          /\ \E k \in 1..Len(puts) : puts[k].by = i /\ puts[k].path = "received"
          /\ pending[j].height = pending[i].height
          /\ pending[j].pc = "ignored"

\* C4: a block task whose height is below the expected height ends without
\* calling putBlocks: posting a block again changes nothing in the store.
C4_Duplicate ==
    \A i \in BlockTasks :
        (pending[i].first_expected >= 0 /\ pending[i].height < pending[i].first_expected)
        => /\ pending[i].st = "resolved"
           /\ PutsBy(i) = <<>>
           /\ pending[i].height \in stored

C4_Witness ==
    \E i, j \in BlockTasks :
        /\ i < j
        /\ pending[i].height = pending[j].height
        /\ PutHeightsBy(i) = <<pending[i].height>>
        /\ pending[j].st = "resolved"
        /\ pending[j].first_expected = pending[j].height + 1
        /\ PutsBy(j) = <<>>

\* C5: when the two blocks that follow the stored chain are the blocks
\* posted, the store ends with both of them whichever was posted first.
C5_OutOfOrder ==
    \A i, j \in BlockTasks :
        LET e == pending[i].first_expected
        IN  ( /\ Quiescent
              /\ BlockTasks = {i, j}
              /\ i < j
              /\ {pending[i].height, pending[j].height} = {e, e + 1} )
            => stored = 0..(e + 1)

C5_Witness ==
    \E i, j \in BlockTasks :
        /\ Quiescent
        /\ BlockTasks = {i, j}
        /\ i < j
        /\ pending[i].height = pending[i].first_expected + 1
        /\ pending[j].height = pending[i].first_expected
        /\ stored = 0..pending[i].height


\* C6: a block ahead of the expected height h_e is stored after the blocks
\* h_e..h_B-1 fetched from Agora: the task calls putBlocks for h_e, h_e+1,
\* ..., h_B in this order, the last call for the received block, and ends
\* with every height up to h_B stored.
C6_RecoveryOrder ==
    \A i \in BlockTasks :
        (Recovered(i) /\ pending[i].st = "resolved")
        => LET e == pending[i].first_expected
               h == pending[i].height
               c == PutsBy(i)
           IN  /\ PutHeightsBy(i) = Range(e, h - e + 1)
               /\ \A k \in 1..Len(c) :
                     /\ c[k].ok
                     /\ c[k].path = IF k = Len(c) THEN "received" ELSE "fetched"
               /\ (0..h) \subseteq stored

C6_Witness ==
    \E i \in BlockTasks :
        /\ pending[i].st = "resolved"
        /\ pending[i].first_expected = 4
        /\ pending[i].height = ScenarioHeight
        /\ PutHeightsBy(i) = Range(4, ScenarioHeight - 3)
        /\ getExpectedBlockHeight(stored) = ScenarioHeight + 1

C8_LargeGap ==
    \A i \in BlockTasks :
        ( /\ Recovered(i)
          /\ pending[i].height - pending[i].first_expected > MAX_RECOVERY
          /\ pending[i].st = "resolved" )
        => LET e == pending[i].first_expected
               f == FetchesBy(i)
           IN  /\ pending[i].passes >= 2
               /\ \A k \in 1..Len(f) : f[k].from = f[k].expected
               /\ (e..pending[i].height) \subseteq Committed
               /\ getExpectedBlockHeight(stored) > pending[i].height

C8_Witness ==
    \E i \in BlockTasks :
        /\ pending[i].st = "resolved"
        /\ pending[i].height - pending[i].first_expected > MAX_RECOVERY
        /\ pending[i].passes = 2
        /\ Len(FetchesBy(i)) = 2
        /\ pending[i].height \in stored

\* C9: when every task has ended, each block committed by this run has had
\* exactly one new_block, one new_transaction and one latest_stats event.
C9_EventsOncePerCommit ==
    Quiescent
    => \A h \in Committed :
          /\ Count("new_block", h) = 1
          /\ Count("new_transaction", h) = 1
          /\ Count("latest_stats", h) = 1

\* C10: every event is about a block that putBlocks has stored before, and
\* the events follow each other in increasing height of their blocks.
C10_EmitAfterCommit ==
    /\ \A k \in 1..Len(emitted) : emitted[k][2] \in Committed
    /\ \A k, l \in 1..Len(emitted) : k < l => emitted[k][2] <= emitted[l][2]

C10_Witness ==
    \E k, l \in 1..Len(puts) :
        /\ puts[k].ok /\ puts[k].path = "direct"
        /\ puts[l].ok /\ puts[l].path = "fetched"
        /\ Count("latest_stats", puts[k].height) = 1
        /\ Count("latest_stats", puts[l].height) = 1

\* The calls of putBlocks that failed.
FailedPuts == {k \in 1..Len(puts) : ~puts[k].ok}

\* Task j was never called: it waits, or was rejected by the task before it.
NeverRun(j) ==
    \/ pending[j].st = "waiting" /\ pending[j].pc = "begin"
    \/ pending[j].st = "rejected" /\ pending[j].pc = "never"

\* C11: when putBlocks fails the task that called it is rejected, the
\* expected height stays what it was at the call, no event is emitted for
\* the block, no putBlocks follows, and no task chained after it is ever
\* called.
C11_CommitFailureHalts ==
    \A k \in FailedPuts :
        LET i == puts[k].by
        IN  /\ pending[i].st = "rejected"
            /\ getExpectedBlockHeight(stored) = puts[k].expected
            /\ puts[k].height \notin stored
            /\ \A kind \in {"new_block", "new_transaction", "latest_stats"} :
                  Count(kind, puts[k].height) = 0
            /\ k = Len(puts)
            /\ \A j \in Tasks : j > i => NeverRun(j)

C11_Witness ==
    \E k \in FailedPuts :
        /\ puts[k].path = "direct"
        /\ pending[puts[k].by].type = "block"
        /\ \E j \in BlockTasks :
              /\ j > puts[k].by
              /\ pending[j].st = "rejected"
              /\ pending[j].pc = "never"
              /\ pending[j].height = puts[k].height

\* Task i was rejected by a failure of agora.getBlocksFrom.
FetchFailed(i) == pending[i].st = "rejected" /\ pending[i].pc = "recover"

\* C12: after a block task was rejected by a failing fetch from Agora, a block
\* task chained after it is still called: it is never rejected without
\* having run.
C12_FetchErrorRetried ==
    \A i \in BlockTasks :
        FetchFailed(i)
        => \A j \in BlockTasks :
              j > i => ~(pending[j].st = "rejected" /\ pending[j].pc = "never")

\* The catch-up chained by start has ended.
CatchupDone ==
    /\ pending # <<>>
    /\ pending[1].type = "catchup"
    /\ pending[1].st = "resolved"

\* Task i is the task of a request to a write endpoint.
Submitted(i) == pending[i].type \in {"block", "pre_image", "transaction"}

\* C13 as stated: a write endpoint accepts a request (chains its task) only
\* when the catch-up has ended.
C13_NoAcceptBeforeCatchup ==
    [][(phase = "started" /\ Len(pending') > Len(pending)) => CatchupDone]_vars

\* C13: the catch-up is the first task of the chain, and the task of a
\* request accepted by a write endpoint is called only when the catch-up
\* has ended; until then it waits in the chain.
C13_NoTaskBeforeCatchup ==
    \A i \in Tasks :
        Submitted(i)
        => /\ i > 1
           /\ pending[1].type = "catchup"
           /\ ~NeverRun(i) => CatchupDone

C13_Witness ==
    /\ pending # <<>>
    /\ pending[1].st = "running"
    /\ pending[1].pc = "remit"
    /\ \E i \in Tasks : Submitted(i) /\ pending[i].st = "waiting"

\* A write endpoint has answered a request in this step.
Answered ==
    \/ res' # res
    \/ phase = "started" /\ Len(pending') # Len(pending)

\* C14: a write endpoint answers 400 and chains nothing when the top-level
\* field of the request is missing; otherwise it chains exactly one task of
\* its type and answers 200 before that task is called.
C14_ShapeResponses ==
    [][Answered =>
        IF res'.body = "missing"
        THEN res'.status = 400 /\ pending' = pending
        ELSE /\ res'.status = 200
             /\ \E h \in PostHeights :
                   pending' = Append(pending, Task(res'.endpoint, h))]_vars

\* Task i ends in this step without an error.
Completes(i) == pending[i].st = "running" /\ pending'[i].st = "resolved"

PreImageTasks == {i \in Tasks : pending[i].type = "pre_image"}

\* Pre-image derivation: the pre-image of a stake at a target height is the
\* stored one hashed once per height between the two.
preimageAt(utxo, target) ==
    [from |-> preimages[utxo].height,
     hashes |-> preimages[utxo].height - target]

\* C15: the stored pre-image height of a stake never decreases, and a
\* pre-image task changes it only to its own height, and only when that
\* height is above the stored one and below the end of the cycle of the
\* enrollment; a lower or equal height changes nothing.
C15_PreImageMonotone ==
    [][\A u \in DOMAIN preimages :
          /\ u \in DOMAIN preimages'
          /\ preimages'[u].height >= preimages[u].height
          /\ preimages'[u].height # preimages[u].height
             => \E i \in PreImageTasks :
                   /\ Completes(i)
                   /\ pending[i].utxo = u
                   /\ pending[i].height = preimages'[u].height
                   /\ pending[i].height > preimages[u].height
                   /\ pending[i].height < preimages[u].enrolled_at + CycleLength
          /\ \A i \in PreImageTasks :
                (Completes(i) /\ pending[i].utxo = u
                   /\ pending[i].height <= preimages[u].height)
                => preimages' = preimages]_vars

C15_Witness ==
    \E i, j \in PreImageTasks :
        /\ i < j
        /\ pending[i].utxo = "u1" /\ pending[j].utxo = "u1"
        /\ pending[i].height = 2 /\ pending[j].height = 1
        /\ pending[j].st = "resolved"
        /\ preimageAt("u1", 1) = [from |-> 2, hashes |-> 1]

\* C16: the task of a pre-image of a stake that is not enrolled changes
\* nothing in the ledger storage and is not rejected for it, and the task
\* chained after it can be called once it has ended.
C16_UnknownKeyDropped ==
    /\ [][\A i \in PreImageTasks :
            (pending[i].st = "running" /\ pending[i].utxo \notin DOMAIN preimages)
            => /\ <<stored, enrollments, preimages>>' = <<stored, enrollments, preimages>>
               /\ pending'[i].st = "rejected" => faulted']_vars
    /\ [](\A i \in PreImageTasks :
            ( /\ pending[i].st = "resolved"
              /\ pending[i].utxo \notin DOMAIN preimages
              /\ i + 1 \in Tasks
              /\ pending[i + 1].st = "waiting" )
            => ENABLED Dequeue(i + 1))

C16_Witness ==
    \E i \in PreImageTasks :
        /\ pending[i].utxo \notin DOMAIN preimages
        /\ pending[i].st = "resolved"
        /\ i + 1 \in PreImageTasks
        /\ pending[i + 1].utxo = "u1"
        /\ pending[i + 1].st = "resolved"
        /\ preimages["u1"].height = pending[i + 1].height
        /\ pending[i + 1].height > 0

\* The enrollments of the blocks committed so far: block tasks whose
\* putBlocks has returned.
CommittedEnrollments ==
    UNION {{[utxo_key |-> u, enrolled_at |-> pending[i].height] :
                u \in pending[i].enrolls} :
           i \in {j \in BlockTasks :
                    \E k \in 1..Len(puts) : puts[k].by = j /\ puts[k].ok}}

Addresses(response) == {v.address : v \in response.body}

NotEnrolledIn(u, from, to) ==
    \A c \in CommittedEnrollments :
        c.utxo_key = u => ~(from <= c.enrolled_at /\ c.enrolled_at <= to)

\* C19: a stake enrolled at height e and enrolled again by the block at
\* e + CycleLength is returned by /validators for every height from e + 1 to
\* the end of the second cycle; a stake that is not enrolled again is
\* returned for e + CycleLength and for no later height, as long as no later
\* block enrolls it.
C19_ReEnrollment ==
    \A c \in CommittedEnrollments :
        LET u == c.utxo_key
            boundary == c.enrolled_at + CycleLength
        IN  /\ [utxo_key |-> u, enrolled_at |-> boundary] \in CommittedEnrollments
               => \A H \in QueryHeights :
                     (c.enrolled_at < H /\ H <= boundary + CycleLength)
                     => u \in Addresses(getValidators(H))
            /\ NotEnrolledIn(u, c.enrolled_at + 1, boundary)
               => /\ u \in Addresses(getValidators(boundary))
                  /\ \A H \in QueryHeights :
                        (H > boundary /\ NotEnrolledIn(u, boundary + 1, H - 1))
                        => u \notin Addresses(getValidators(H))

C19_Witness ==
    /\ CommittedEnrollments = {[utxo_key |-> "u1", enrolled_at |-> 0],
                               [utxo_key |-> "u2", enrolled_at |-> 0],
                               [utxo_key |-> "u1", enrolled_at |-> CycleLength]}
    /\ latest = CycleLength + 1
    /\ Addresses(getValidators(CycleLength)) = {"u1", "u2"}
    /\ Addresses(getValidators(latest)) = {"u1"}
    /\ Addresses(getValidators(NoHeight)) = {"u1"}

----------------------------------------------------------------------------
\* The statuses a proposal p can have when the block of height h is the last
\* one stored.
StatusAt(p, h) ==
    IF h < p.declared_at THEN {"NONE"}
    ELSE IF h < p.vote_start_height THEN {"PENDING"}
    ELSE IF h <= p.vote_end_height THEN {"VOTING"}
    ELSE IF h < p.vote_end_height + TallyGrace THEN {"COUNTING_VOTES"}
    ELSE {"ASSESSING", "CLOSED"}

\* A block is stored in this step.
Commits ==
    /\ stored \subseteq stored'
    /\ Cardinality(stored') = Cardinality(stored) + 1

\* C20: with S the height the vote of a proposal starts at and E the height
\* it ends at, the status once the block of height h is committed is PENDING
\* for h < S, VOTING for S <= h <= E, COUNTING_VOTES for E+1 <= h < E+7, and
\* ASSESSING or CLOSED from h = E+7 on; the status changes only in a step
\* that commits a block, and a closed proposal stays closed.
C20_StatusByHeight ==
    /\ [](proposal.proposal_status \in StatusAt(proposal, latest))
    /\ [][/\ proposal' # proposal => Commits
          /\ proposal.proposal_status = "CLOSED" => proposal' = proposal]_vars

\* A proposal whose vote is over is being counted, with blocks that Stoa
\* recovered from Agora and blocks that Agora posted.
C20_Witness ==
    /\ proposal.proposal_status = "COUNTING_VOTES"
    /\ latest > proposal.vote_end_height + 1
    /\ \E i \in DOMAIN puts : puts[i].path = "received"
    /\ \E i \in DOMAIN puts : puts[i].path = "fetched"

----------------------------------------------------------------------------
\* The rows the store holds for the ballot of the block of height h.
rowsAt(h) == {b \in ballots : b.block_height = h}

\* The heights of the committed blocks that carry a ballot.
BallotHeights == {h \in stored : payload(h).kind = "ballot"}

\* The ballot of the block of height h is the first one of its validator, or
\* follows ballots of no greater sequence.
InSequence(h) ==
    \A g \in BallotHeights :
        (g < h /\ payload(g).validator = payload(h).validator)
            => payload(g).sequence <= payload(h).sequence

\* The tally of the proposal has not run yet.
BeforeTally == proposal.proposal_status \in {"PENDING", "VOTING", "COUNTING_VOTES"}

\* C21: a ballot is accepted only if its block has a height h with
\* vote_start_height <= h <= vote_end_height; a ballot in order at exactly
\* vote_start_height or vote_end_height is accepted; one at
\* vote_start_height - 1 or vote_end_height + 1 is stored as REJECT; every
\* ballot of a committed block is stored, rejected or not.
C21_BallotWindow ==
    \A h \in BallotHeights :
        /\ Cardinality(rowsAt(h)) = 1
        /\ \A b \in rowsAt(h) :
              /\ b.ballot_answer # "REJECT" =>
                    /\ proposal.vote_start_height <= h
                    /\ h <= proposal.vote_end_height
              /\ h \in {proposal.vote_start_height - 1, proposal.vote_end_height + 1}
                    => b.ballot_answer = "REJECT"
              /\ (/\ h \in {proposal.vote_start_height, proposal.vote_end_height}
                  /\ InSequence(h)
                  /\ BeforeTally) => b.ballot_answer = "UNDECODED"

\* A ballot of the block before the window is stored as REJECT and a ballot
\* of the last block of the window is stored accepted.
C21_Witness ==
    /\ \E h \in BallotHeights :
          /\ h = proposal.vote_start_height - 1
          /\ \E b \in rowsAt(h) : b.ballot_answer = "REJECT"
    /\ \E h \in BallotHeights :
          /\ h = proposal.vote_end_height
          /\ \E b \in rowsAt(h) : b.ballot_answer = "UNDECODED"

----------------------------------------------------------------------------
\* The heights of the ballots of the chain that the validator v sent inside
\* the voting window, in committed blocks.
InWindow(v) ==
    {h \in BallotHeights :
        /\ payload(h).validator = v
        /\ proposal.vote_start_height <= h
        /\ h <= proposal.vote_end_height}

\* The height of the ballot of the chain that counts for v: the last ballot
\* in the window whose sequence no earlier ballot in the window exceeds.
Counted(v) ==
    {h \in InWindow(v) :
        /\ \A g \in InWindow(v) : g < h => payload(g).sequence <= payload(h).sequence
        /\ \A g \in InWindow(v) :
              (g > h) => \E f \in InWindow(v) :
                            f < g /\ payload(f).sequence > payload(g).sequence}

\* The number of validators whose counted ballot was encrypted with the key
\* of the tally and answers a.
Answering(a) ==
    Cardinality({v \in Committee : \E h \in Counted(v) :
        payload(h).answer = a /\ payload(h).key_height = keyHeight(proposal)})

\* The number of validators with a counted ballot.
Voting == Cardinality({v \in Committee : Counted(v) # {}})

\* The tally of the proposal has run.
Tallied == proposal.proposal_status \in {"ASSESSING", "CLOSED"}

\* C22: the result of a tallied proposal is PASSED if and only if the
\* decoded YES answers are strictly more than the NO answers (BLANK and
\* REJECT ballots, out-of-window ballots included, are not counted) and at
\* least a third, rounded up, of the validators of the committee voted;
\* otherwise it is REJECTED.
C22_ResultRule ==
    Tallied =>
        /\ proposal.proposal_result \in {"PASSED", "REJECTED"}
        /\ proposal.proposal_result = "PASSED" <=>
              /\ Answering("YES") > Answering("NO")
              /\ 3 * Voting >= Cardinality(Committee)

\* A proposal passed with one YES and one BLANK of a committee of four,
\* after the tally.
C22_Witness ==
    /\ Tallied
    /\ proposal.proposal_result = "PASSED"
    /\ Answering("YES") = 1
    /\ Answering("BLANK") = 1

----------------------------------------------------------------------------
----------------------------------------------------------------------------
\* The validators with an accepted ballot.
AcceptedVoters == {v \in Voters : acceptedOf(v) # {}}

----------------------------------------------------------------------------
\* The rows of the validator v that count.
countedRows(v) == {b \in ballots : b.validator = v /\ counts(b, ballots)}

\* C25: before the tally, at most one ballot of a validator counts: the
\* ballot of the latest block of the window whose sequence no earlier ballot
\* of the validator in the window exceeds; a later ballot of a smaller
\* sequence is stored as REJECT, and of two ballots of the same sequence the
\* one of the later block counts.
C25_OneBallotCounts ==
    BeforeTally =>
        \A v \in Voters :
            /\ Cardinality(countedRows(v)) <= 1
            /\ {b.block_height : b \in countedRows(v)} = Counted(v)
            /\ \A g, h \in InWindow(v) :
                  (g < h /\ payload(g).sequence > payload(h).sequence)
                      => \A b \in rowsAt(h) : b.ballot_answer = "REJECT"

\* A validator sent two ballots of the same sequence in the window: the one
\* of the later block counts.
C25_Witness ==
    /\ BeforeTally
    /\ \E v \in Voters : \E g, h \in InWindow(v) :
          /\ g < h
          /\ payload(g).sequence = payload(h).sequence
          /\ \E b \in countedRows(v) : b.block_height = h

----------------------------------------------------------------------------
\* The result the ledger gives when every pre-image is there for the tally.
ledgerResult ==
    IF Answering("YES") > Answering("NO") /\ 3 * Voting >= Cardinality(Committee)
    THEN "PASSED" ELSE "REJECTED"

----------------------------------------------------------------------------
\* The heights of the committed blocks whose ballot was accepted: in the
\* voting window, after no ballot of its validator of a greater sequence.
AcceptedHeights ==
    {h \in BallotHeights :
        /\ h \in InWindow(payload(h).validator)
        /\ \A g \in InWindow(payload(h).validator) :
              g < h => payload(g).sequence <= payload(h).sequence}

\* C27: once the votes are tallied, each accepted ballot encrypted with the
\* key of the pre-image of vote_end_height is decoded to its answer, YES, NO
\* or BLANK, and a ballot encrypted with the key of any other height is
\* REJECT.
C27_KeyOfVoteEnd ==
    Tallied =>
        \A h \in AcceptedHeights : \A b \in rowsAt(h) :
            b.ballot_answer =
                IF payload(h).key_height = proposal.vote_end_height
                THEN payload(h).answer ELSE "REJECT"

----------------------------------------------------------------------------
\* The block of height h is committed and declares a proposal whose
\* fee_tx_hash is the hash of a ProposalFee transaction of an earlier
\* committed block, for the same proposal, that paid at least proposal_fee.
FundedAt(h) ==
    /\ h \in stored
    /\ payload(h).kind = "proposal"
    /\ \E g \in stored :
          /\ g < h
          /\ payload(g).kind = "fee"
          /\ payload(g).hash = payload(h).fee_tx_hash
          /\ payload(g).proposal_id = payload(h).proposal_id
          /\ payload(g).paid >= payload(h).proposal_fee

\* C28: the ledger has a proposal only if a committed declaration refers to
\* the fee marker of an earlier committed ProposalFee transaction for the
\* same proposal that paid at least proposal_fee, and the proposal is the
\* one of the first such declaration; a declaration whose marker is absent
\* or whose fee is insufficient creates none.
C28_FeeMarker ==
    IF \E h \in stored : FundedAt(h)
    THEN /\ FundedAt(proposal.declared_at)
         /\ \A h \in stored : FundedAt(h) => proposal.declared_at <= h
    ELSE proposal = NoProposal

\* A declaration referring to a committed fee transaction that paid less
\* than the fee created nothing; a later one, referring to a fee paid in
\* full, created the proposal.
C28_Witness ==
    /\ proposal # NoProposal
    /\ \E g, h \in stored :
          /\ g < proposal.declared_at
          /\ payload(g).kind = "proposal" /\ payload(g).fee_tx_hash = "f2"
          /\ payload(h).kind = "fee" /\ payload(h).hash = "f2"
          /\ h < g

----------------------------------------------------------------------------
\* The query parameter is given and is not a positive integer.
NotPositive(q) == q.given /\ ~isPositiveInteger(q.text)

\* The pagination of the request is one the claim rejects.
Refused ==
    \/ NotPositive(request.page)
    \/ NotPositive(request.pageSize)
    \/ request.pageSize.given /\ Number(request.pageSize.text) > limit_page_size

\* C29: once paginate has run for a request, a page or a pageSize that is
\* given and is not a positive integer, or a pageSize above 100, was
\* answered with 400, with exactly one response and no query of the store;
\* otherwise the pagination is the page and the pageSize given, an absent
\* page being 1 and an absent pageSize 10.
C29_Pagination ==
    (request.endpoint = "/latest-blocks" /\ request.pc # "received") =>
        IF Refused
        THEN request.sent = <<400>> /\ request.queries = 0
        ELSE /\ request.pc # "pending"
             /\ paginate(request.page, request.pageSize) =
                    [resolved |-> TRUE,
                     page |-> IF request.page.given
                              THEN Number(request.page.text) ELSE 1,
                     pageSize |-> IF request.pageSize.given
                                  THEN Number(request.pageSize.text) ELSE 10]

----------------------------------------------------------------------------
\* The lookup of the request finds nothing in the ledger storage.
FindsNothing ==
    IF request.endpoint = "/latest-blocks"
    THEN LET pagination == paginate(request.page, request.pageSize)
         IN  getLatestBlocks(pagination.pageSize, pagination.page) = {}
    ELSE IF request.endpoint = "/validators"
    THEN getValidatorsAPI(request.height) = {}
    ELSE IF request.endpoint = "/validator/:address"
    THEN getValidatorAPI(request.height, request.address) = {}
    ELSE stored = {}

\* C30: a read endpoint that queried the store answers 500 when the store
\* failed and 204 when the lookup found nothing, whichever the endpoint.
C30_NotFoundAndFailure ==
    (request.endpoint # "none" /\ request.queries > 0) =>
        /\ request.store # "rows" => request.sent = <<500>>
        /\ (request.store = "rows" /\ FindsNothing) => request.sent = <<204>>

----------------------------------------------------------------------------
\* Block intake in which the only failure is the one of emitBoaStats: every
\* step of a task that can be taken is taken, a failing stats query being
\* possible at each commit.
NextEvents ==
    \/ Start
    \/ postBlock
    \/ AgoraGrows
    \/ \E i \in DOMAIN pending : Dequeue(i)
    \/ \E i \in DOMAIN pending : TaskExpected(i)
    \/ \E i \in DOMAIN pending : CatchupExpected(i)
    \/ \E i \in DOMAIN pending : TaskPut(i)
    \/ \E i \in DOMAIN pending : TaskEmit(i)
    \/ \E i \in DOMAIN pending : StatsHangs(i)
    \/ \E i \in DOMAIN pending : RecoverFetch(i)
    \/ \E i \in DOMAIN pending : RecoverPut(i)
    \/ \E i \in DOMAIN pending : RecoverEmit(i)
    \/ \E i \in DOMAIN pending : RecoverSave(i)
    \/ \E i \in DOMAIN pending : Reread(i)

\* The steps of the promise chain and of a task that has not failed.
TaskStep ==
    \/ \E i \in DOMAIN pending : Dequeue(i)
    \/ \E i \in DOMAIN pending : TaskExpected(i)
    \/ \E i \in DOMAIN pending : CatchupExpected(i)
    \/ \E i \in DOMAIN pending : TaskPut(i)
    \/ \E i \in DOMAIN pending : TaskEmit(i)
    \/ \E i \in DOMAIN pending : RecoverFetch(i)
    \/ \E i \in DOMAIN pending : RecoverPut(i)
    \/ \E i \in DOMAIN pending : RecoverEmit(i)
    \/ \E i \in DOMAIN pending : RecoverSave(i)
    \/ \E i \in DOMAIN pending : Reread(i)

SpecEvents == Init /\ [][NextEvents]_vars /\ WF_vars(TaskStep)

\* The positions of the promise chain: the catch-up and the posts.
Positions == 1..(MaxPosts + 1)

\* The task at position i has stored its block and is about to announce it.
AtEmit(i) ==
    /\ i \in DOMAIN pending
    /\ pending[i].type = "block"
    /\ pending[i].st = "running"
    /\ pending[i].pc = "emit"

\* The task at position i has resolved or rejected.
Finished(i) ==
    /\ i \in DOMAIN pending
    /\ pending[i].st \in {"resolved", "rejected"}

\* The callback of the task at position i was called, or the chain rejected
\* it.
Called(i) ==
    /\ i \in DOMAIN pending
    /\ pending[i].st # "waiting"

\* C31: a dequeued block task that has committed its block eventually
\* finishes, whether or not its events could be produced, and the task
\* chained behind it is then called.
C31_EventFailureDoesNotBlock ==
    \A i \in Positions :
        /\ AtEmit(i) ~> Finished(i)
        /\ (AtEmit(i) /\ i + 1 \in DOMAIN pending) ~> Called(i + 1)

----------------------------------------------------------------------------
\* The fetches of the block task at position i, in call order.
fetchesOf(i) == {k \in DOMAIN fetches : fetches[k].by = i}

\* C32: a block task makes another recovery fetch only when the one before
\* was served in full: after a fetch that returned an empty or too short
\* prefix the task completes, leaving the rest of the gap to the next
\* intake, so that a later fetch of the same task starts past every block
\* the earlier one asked for.
C32_CompletesAfterAttempt ==
    \A i \in DOMAIN pending :
        pending[i].type = "block" =>
            \A k, l \in fetchesOf(i) :
                k < l => fetches[l].from >= fetches[k].from + fetches[k].count

----------------------------------------------------------------------------
\* The task at position i is the one of a block object without a height.
Malformed(i) == pending[i].type = "block" /\ pending[i].height = NoJsonHeight

\* C33: the task of a malformed block commits nothing, and a well-formed
\* block chained after it is still dequeued: it is never rejected without
\* having been called.
C33_MalformedIsRecoverable ==
    \A i \in DOMAIN pending :
        Malformed(i) =>
            /\ \A k \in DOMAIN puts : puts[k].by # i
            /\ \A j \in DOMAIN pending :
                  (j > i /\ pending[j].type = "block" /\ ~Malformed(j))
                      => pending[j].pc # "never"

----------------------------------------------------------------------------
\* The transaction task at position i was rejected by a failure of its own:
\* of the write to the pool, or of the query of the height of Agora.
PoolFailed(i) ==
    /\ pending[i].type = "transaction"
    /\ pending[i].st = "rejected"
    /\ pending[i].pc \in {"begin", "tip"}

\* C34: a transaction task that fails does not stop the block tasks chained
\* after it: each of them is called when its turn comes, none is rejected
\* by the chain without having run.
C34_PoolFailureAbsorbed ==
    \A i, j \in DOMAIN pending :
        (PoolFailed(i) /\ j > i /\ pending[j].type = "block")
            => pending[j].st # "rejected"

----------------------------------------------------------------------------
\* What the task that made the fetch f had to request: the heights from
\* f.from up to the height of its block, the block itself left out, or up
\* to the tip of Agora, the tip included, for the catch-up.
missingAt(f) ==
    (pending[f.by].height - f.from)
        + (IF pending[f.by].type = "catchup" THEN 1 ELSE 0)

\* C35: every call of agora.getBlocksFrom made by recoverBlock starts at the
\* height the store expects at that moment and asks for min(64, h_B - h_e)
\* blocks for a received block of height h_B and min(64, h_tip - h_e + 1)
\* blocks for the catch-up; no call asks for more than 64 blocks, none for
\* zero blocks.
C35_FetchCount ==
    \A k \in DOMAIN fetches :
        /\ fetches[k].from = fetches[k].expected
        /\ fetches[k].count = Min(MAX_RECOVERY, missingAt(fetches[k]))
        /\ fetches[k].count <= MAX_RECOVERY
        /\ fetches[k].count > 0

\* A received block more than 64 heights ahead has been fetched for in two
\* passes, the first capped at 64 blocks and the second asking for the
\* rest.
C35_Witness ==
    \E k, l \in DOMAIN fetches :
        /\ k < l
        /\ fetches[k].by = fetches[l].by
        /\ pending[fetches[k].by].type = "block"
        /\ missingAt(fetches[k]) > MAX_RECOVERY
        /\ fetches[k].count = MAX_RECOVERY
        /\ fetches[l].count = missingAt(fetches[l])
        /\ fetches[l].count < MAX_RECOVERY

----------------------------------------------------------------------------
\* The row of the request has been answered.
Derived == request.endpoint \in {"/validators", "/validator/:address"}
               /\ "row" \in DOMAIN request /\ request.pc = "done"

\* The pre-image height of the row covers the height asked for.
Covered(row) ==
    /\ row.avail_height <= row.height
    /\ row.height <= row.avail_height + row.preimage_height

\* C36: the pre-image GET /validators and GET /validator/:address report
\* for a row is derived from the stored pre-image only: when avail_height <=
\* target <= avail_height + preimage_height it is the stored hash hashed
\* exactly avail_height + preimage_height - target times, with the height
\* target - avail_height; otherwise the commitment with height 0 when the
\* target is enrolled_at, and the zero hash with an empty height in every
\* other case.
C36_DerivedPreImage ==
    Derived =>
        LET row == request.row
            p   == request.sent[Len(request.sent)].preimage
        IN  IF Covered(row)
            THEN /\ p.hash.of = "preimage"
                 /\ p.hash.times =
                        (row.avail_height + row.preimage_height) - row.height
                 /\ isDigits(p.height)
                 /\ valueOf(p.height) = row.height - row.avail_height
            ELSE IF row.height = row.enrolled_at
                 THEN p.hash = row.commitment /\ p.height = <<"0">>
                 ELSE p.hash = ZeroHash /\ p.height = <<>>

\* A row whose pre-image is two heights above the target has been answered
\* with the stored hash hashed twice.
C36_Witness ==
    /\ Derived
    /\ Covered(request.row)
    /\ request.row.avail_height + request.row.preimage_height
            = request.row.height + 2
    /\ request.sent[Len(request.sent)].preimage.hash.times = 2

----------------------------------------------------------------------------
\* The order of the statuses of a proposal.
Rank ==
    ("NONE" :> 0) @@ ("PENDING" :> 1) @@ ("VOTING" :> 2) @@
    ("COUNTING_VOTES" :> 3) @@ ("ASSESSING" :> 4) @@ ("CLOSED" :> 5)

\* The status the commit of the block of height h brings a proposal p to,
\* for the heights that trigger a transition.
Triggered(p) ==
    {<<p.declared_at, "PENDING">>, <<p.vote_start_height, "VOTING">>,
     <<p.vote_end_height + 1, "COUNTING_VOTES">>,
     <<p.vote_end_height + TallyGrace, "ASSESSING">>}

\* C37: the status of a proposal only moves forward in the order PENDING,
\* VOTING, COUNTING_VOTES, ASSESSING, CLOSED, whatever blocks are posted,
\* posted twice or out of order, and no transition is skipped: once the
\* block of a height that triggers a transition is stored, by the task of
\* that block or by recovery, the status is the one it triggers or a later
\* one.
C37_StatusForward ==
    /\ [](\A t \in Triggered(proposal) :
              t[1] \in stored => Rank[proposal.proposal_status] >= Rank[t[2]])
    /\ [][Rank[proposal'.proposal_status] >= Rank[proposal.proposal_status]]_vars

\* The proposal is past its vote; the block its vote started with and the
\* block that ended the vote were stored by recovery, and a block posted
\* again or late was ignored.
C37_Witness ==
    /\ Rank[proposal.proposal_status] >= Rank["COUNTING_VOTES"]
    /\ \E k \in DOMAIN puts : /\ puts[k].path = "fetched"
                              /\ puts[k].height = proposal.vote_start_height
    /\ \E k \in DOMAIN puts : /\ puts[k].path = "fetched"
                              /\ puts[k].height = proposal.vote_end_height + 1
    /\ \E i \in Reposted : pending[i].pc = "ignored"

----------------------------------------------------------------------------
\* A search of the logs has been answered with the records found.
Searched ==
    /\ request.endpoint \in LogEndpoints
    /\ request.pc = "done"

\* The records at the offsets from to upTo, counted from 0, of `matching`
\* records.
RecordsAt(matching, from, upTo) ==
    [n \in 1..(Min(upTo + 1, matching) - Min(from, matching)) |-> from + n]

\* C38: /accesslogs/search and /operationlogs/search answer page p with
\* page size s with the matching records at the offsets (p-1)*s up to
\* p*s - 1: page p skips exactly (p-1)*s records.
C38_LogPages ==
    Searched =>
        LET pagination == paginate(request.page, request.pageSize)
            p == pagination.page
            s == pagination.pageSize
        IN  request.sent[Len(request.sent)].body =
                RecordsAt(request.matching, (p - 1) * s, (p * s) - 1)

----------------------------------------------------------------------------
\* The last response of /reset/:token.
ResetAnswered == resets.last.method \in {"GET", "POST"}

\* C39: a reset token is limited in time and used once: GET and POST
\* /reset/:token answer 200 only for a token that generatePasswordReset
\* issued less than an hour before, and once a POST /reset/:token with a
\* token has succeeded, every request of /reset/:token received later with
\* that token is answered 401.
C39_ResetToken ==
    ResetAnswered =>
        /\ resets.last.status = 200 => resets.last.fresh
        /\ resets.last.used => resets.last.status = 401

\* A POST /reset/:token with a token that is less than an hour old, and
\* that an earlier POST /reset/:token has used, was answered 401.
C39_Witness ==
    /\ ResetAnswered
    /\ resets.last.method = "POST"
    /\ resets.last.used
    /\ resets.last.fresh
    /\ resets.last.status = 401

----------------------------------------------------------------------------
\* Every task chained so far has ended.
AllEnded ==
    \A i \in DOMAIN pending : pending[i].st \in {"resolved", "rejected"}

\* C40: HeightManager.height never exceeds the height of the highest block
\* stored, and once the tasks have ended it is the height of the last block
\* stored, also after a task whose block recoverBlock postponed.
C40_HeightOfLastCommit ==
    /\ HeightManager <= latest
    /\ (AllEnded /\ puts # <<>> /\ puts[Len(puts)].ok) => HeightManager = latest

====
